---- MODULE Spec2Model ----
(***************************************************************************)
(* A model of ib_sync: the synchronous facade IBSync over the asynchronous *)
(* gateway client.  Caller threads register a Request in Results, send the *)
(* request and poll the Request under a Timer; the delivery thread invokes *)
(* the callbacks, which append to and finish the Requests.                 *)
(*                                                                         *)
(* Time is counted in seconds.  A Request object lives on a heap           *)
(* (requests); Results.requests_by_id maps keys to heap handles in dict    *)
(* insertion order, so a caller keeps its object when the key is evicted   *)
(* or reassigned.                                                          *)
(***************************************************************************)
EXTENDS Integers, Sequences, FiniteSets, TLC

\* ------------------------------------------------------------------ bounds
\* Facade calls that register a Request, per caller thread.
MaxCalls == 1
\* Data callbacks delivered in one run; the k-th delivered item is the number k.
MaxItems == 3
\* Correlation ids are drawn from 1..MaxId (random.randint's range, shrunk).
MaxId == 2

\* ------------------------------------------------------- program constants
TIMEOUT == 5
EVICT_SIZE == 10

Callers == {1, 2}
\* The threads that take messages from the inbound queue: a caller thread in
\* get_contract_details, and the thread of EClient.run.
Threads == {"caller", "run"}
Ids == 1..MaxId
INFO_CODES == {2104, 2106, 2107, 2119, 2158, 2100}
\* Error codes the gateway delivers: one informational, one real.
Codes == {2104, 162}
\* A message is the list of its parts, the empty string the empty list, and
\* `x in message` holds when x is one of the parts.
NO_DATA == "query returned no data"
NoDataMsg == <<"HMDS ", NO_DATA, ": ZCH4@CBOT Trades">>
OtherMsg == <<"No security definition has been found">>
Msgs == {<<>>, NoDataMsg, OtherMsg}

VARIABLES
    requests,          \* heap of Request objects, by handle 1..Len
    requests_by_id,    \* Results.requests_by_id: <<key, handle>> in dict order
    pc,                \* per caller: where its facade call stands
    op,                \* per caller: the facade operation it runs
    hs,                \* per caller: handles of the Requests its call created
    ncalls,            \* per caller: calls that registered a Request so far
    elapsed,           \* per caller: monotonic() - Timer.start_time
    result,            \* per caller: the value its call returned
    exc,               \* per caller: the message of the exception raised
    nitems,            \* data callbacks delivered so far
    nextValidOrderId,  \* IBClient.nextValidOrderId
    cds,               \* ContractDetails objects by item number: their contract
    cached_details,    \* IBSync._cached_details: hash -> list of item numbers
    contract,          \* per caller: the descriptor its call works on
    keep,              \* per caller: qualify_contract's keep_exchange
    sent,              \* requests sent to the gateway so far
    msg_queue,         \* IBClient.msg_queue: the inbound messages, head first
    dispatched,        \* the messages the dispatcher took, in that order
    taken,             \* per thread: the message it took and has not handled
    ghost              \* per Request object: history used to state claims

callerVars == <<pc, op, hs, ncalls, elapsed, result, exc>>
registryVars == <<requests, requests_by_id>>
cacheVars == <<cds, cached_details>>
descrVars == <<contract, keep>>
queueVars == <<msg_queue, dispatched, taken>>
vars == <<requests, requests_by_id, pc, op, hs, ncalls, elapsed, result, exc,
          nitems, nextValidOrderId, cds, cached_details, contract, keep,
          sent, ghost, queueVars>>

Terminal == {"done", "error", "timeout", "index_error", "qualify_error"}

\* ------------------------------------------------------------ Request
\* Request.__init__; started_at is kept as `old`: whether the object is
\* older than the eviction horizon of Results.request.
Request(type, id) ==
    [id |-> id, type |-> type, old |-> FALSE, finished |-> FALSE,
     code |-> 0, error |-> <<>>, items |-> <<>>]

\* The object Results.get returns for an absent key: Request(), not stored.
Placeholder == Request("", 0)

\* Request.finish
Request_finish(r) == [r EXCEPT !.finished = TRUE]

\* list.append on a Request
Request_append(r, item) == [r EXCEPT !.items = Append(r.items, item)]

\* ------------------------------------------------------------ Results
Handle(d, id) ==
    IF \E i \in DOMAIN d : d[i][1] = id
    THEN d[CHOOSE i \in DOMAIN d : d[i][1] = id][2]
    ELSE 0

\* A Results.get that falls back on the entry registered last.
Results_get_or_last(id) ==
    IF Handle(requests_by_id, id) # 0 \/ requests_by_id = <<>>
    THEN Handle(requests_by_id, id)
    ELSE requests_by_id[Len(requests_by_id)][2]

\* Results.get: the handle of the entry for id, 0 for the placeholder.
Results_get(id) == Handle(requests_by_id, id)

\* Results.filter(type=...), as handles in dict order.
Results_filter(heap, d, type) ==
    LET sel == SelectSeq(d, LAMBDA e : heap[e[2]].type = type)
    IN [i \in DOMAIN sel |-> sel[i][2]]

\* Results.active(type) = Results.filter(type=type, finished=False)
Results_active(type) ==
    SelectSeq(Results_filter(requests, requests_by_id, type),
              LAMBDA h : ~requests[h].finished)

\* An eviction that does not look at the size of the dict.
Evict_any_size(heap, d) == SelectSeq(d, LAMBDA e : ~heap[e[2]].old)

\* The eviction at the head of Results.request.
Evict(heap, d) ==
    IF Len(d) > EVICT_SIZE
    THEN SelectSeq(d, LAMBDA e : ~heap[e[2]].old)
    ELSE d

\* dict assignment: an existing key keeps its place in the order.
DictPut(d, id, h) ==
    IF \E i \in DOMAIN d : d[i][1] = id
    THEN [i \in DOMAIN d |-> IF d[i][1] = id THEN <<id, h>> ELSE d[i]]
    ELSE Append(d, <<id, h>>)

\* Results.request(type, id) with the random id already drawn: the new heap,
\* the new dict and the handle of the new Request.
Results_request(heap, d, type, id) ==
    LET h == Len(heap) + 1
    IN [requests |-> Append(heap, Request(type, id)),
        by_id |-> DictPut(Evict(heap, d), id, h),
        h |-> h]

\* Results.finish(type): every entry of the type, finished or not.
Results_finish(heap, d, type) ==
    LET f == Results_filter(heap, d, type)
        hit == {f[i] : i \in DOMAIN f}
    IN [h \in DOMAIN heap |->
            IF h \in hit THEN Request_finish(heap[h]) ELSE heap[h]]

\* ------------------------------------------------------------ Contract
\* Contract(): the fields Contract.__hash__ reads.  An expiry string is its
\* list of whitespace-separated parts, so that str.split is Head.
\* `details` is the attribute qualify_contract sets: the item number of the
\* ContractDetails, 0 while the attribute is absent.
Contract ==
    [secType |-> "", conId |-> 0, symbol |-> "",
     lastTradeDateOrContractMonth |-> <<>>, exchange |-> "",
     primaryExchange |-> "", currency |-> "", localSymbol |-> "",
     includeExpired |-> FALSE, details |-> 0]

\* The fields of contract.__dict__ that a gateway record carries.
ContractFields ==
    {"secType", "conId", "symbol", "lastTradeDateOrContractMonth", "exchange",
     "primaryExchange", "currency", "localSymbol", "includeExpired"}

\* hash(obj) for an object whose __hash__ returned the integer h: the
\* interpreter keeps -1 for its own use and hands out -2 in its place. (It
\* also reduces h modulo 2^61 - 1; numeric ids are 32-bit and stay below.)
builtin_hash(h) == IF h = 0 - 1 THEN 0 - 2 ELSE h

\* Contract.__hash__ of every field, whether or not there is a numeric id.
Contract_hash_of_fields(c) ==
    <<"str", <<c.secType, c.conId, c.symbol,
               c.lastTradeDateOrContractMonth, c.exchange,
               c.primaryExchange, c.currency, c.localSymbol>>>>

\* hash(c) of a Contract, as every user of the hash calls it: __hash__ gives
\* the numeric id, negated for CONTFUT, else the hash of the formatted string
\* (two strings hash alike iff they are equal).
Contract_hash(c) ==
    IF c.conId # 0
    THEN <<"int", builtin_hash(IF c.secType # "CONTFUT"
                               THEN c.conId ELSE 0 - c.conId)>>
    ELSE <<"str", <<c.secType, c.conId, c.symbol,
                    c.lastTradeDateOrContractMonth, c.exchange,
                    c.primaryExchange, c.currency, c.localSymbol>>>>

\* a == b of two Contract objects (Contract.__eq__): equal non-zero numeric
\* ids, or else equal hashes.
Contract_eq(a, b) ==
    IF a.conId # 0 /\ a.conId = b.conId
    THEN TRUE
    ELSE Contract_hash(a) = Contract_hash(b)

\* ------------------------------------------------------------ history
\* Kept beside each Request object and read by no action's guard:
\*   due      the items the callbacks of the object's type delivered for the
\*            account between its creation and the first terminal callback
\*            of its type
\*   closed   that terminal callback has been delivered
\*   solo     no other unfinished entry of its type was registered while it
\*            was open
\*   byError  an error callback found it unfinished and finished it
\*   message  the errorString of that callback
Ghost(solo) ==
    [due |-> <<>>, closed |-> FALSE, solo |-> solo, byError |-> FALSE,
     message |-> <<>>]

GhostData(type, item) ==
    [h \in DOMAIN ghost |->
        IF requests[h].type = type /\ ~ghost[h].closed
        THEN [ghost[h] EXCEPT !.due = Append(@, item)]
        ELSE ghost[h]]

GhostEnd(g, types) ==
    [h \in DOMAIN g |->
        IF requests[h].type \in types THEN [g[h] EXCEPT !.closed = TRUE] ELSE g[h]]

\* The history after Results.request(type, id) on heap and dict d: the
\* entries of the type that stay registered and unfinished are no longer solo.
GhostRequest(heap, d, g, type, id) ==
    LET f == Results_filter(heap, SelectSeq(Evict(heap, d), LAMBDA e : e[1] # id),
                            type)
        open == {f[i] : i \in {j \in DOMAIN f : ~heap[f[j]].finished}}
    IN Append([h \in DOMAIN g |->
                  IF h \in open THEN [g[h] EXCEPT !.solo = FALSE] ELSE g[h]],
              Ghost(open = {}))

\* ------------------------------------------------------------ callbacks
\* The delivery thread's handlers.  Every data callback carries a fresh item:
\* the number nitems + 1.
account_id == "DU1"
Accounts == {"DU1", "DU2"}

Item == nitems + 1

Deliver == /\ nitems < MaxItems
           /\ nitems' = nitems + 1

\* `if not request.finished: request.append(item)` on Results.get(id=reqId)
GuardedAppend(reqId, item) ==
    LET h == Results_get(reqId)
    IN IF h # 0 /\ ~requests[h].finished
       THEN [requests EXCEPT ![h] = Request_append(@, item)]
       ELSE requests

\* A variant of AppendToLastActive that appends to the last entry of the
\* type, finished or not; C2 must not hold of it.
AppendToLastOfType(type, item) ==
    LET f == Results_filter(requests, requests_by_id, type)
    IN IF f # <<>>
       THEN [requests EXCEPT ![f[Len(f)]] = Request_append(@, item)]
       ELSE requests

\* `requests[-1].append(item)` when Results.active(type) is not empty
AppendToLastActive(type, item) ==
    LET act == Results_active(type)
    IN IF act # <<>>
       THEN [requests EXCEPT ![act[Len(act)]] = Request_append(@, item)]
       ELSE requests

\* Results.get(id=reqId).finish()
FinishById(reqId) ==
    LET h == Results_get(reqId)
    IN IF h # 0 THEN [requests EXCEPT ![h] = Request_finish(@)] ELSE requests

historicalData(reqId) ==
    /\ Deliver
    /\ requests' = GuardedAppend(reqId, Item)
    /\ UNCHANGED <<requests_by_id, callerVars, nextValidOrderId, cacheVars,
                   descrVars, sent, ghost, queueVars>>

historicalDataEnd(reqId) ==
    /\ requests' = FinishById(reqId)
    /\ UNCHANGED <<requests_by_id, callerVars, nitems, nextValidOrderId,
                   cacheVars, descrVars, sent, ghost, queueVars>>

execDetails(reqId) ==
    /\ Deliver
    /\ requests' = GuardedAppend(reqId, Item)
    /\ UNCHANGED <<requests_by_id, callerVars, nextValidOrderId, cacheVars,
                   descrVars, sent, ghost, queueVars>>

execDetailsEnd(reqId) ==
    /\ requests' = FinishById(reqId)
    /\ UNCHANGED <<requests_by_id, callerVars, nitems, nextValidOrderId,
                   cacheVars, descrVars, sent, ghost, queueVars>>

headTimestamp(reqId) ==
    /\ Deliver
    /\ LET h == Results_get(reqId)
       IN requests' =
            IF h # 0 /\ ~requests[h].finished
            THEN [requests EXCEPT ![h] = Request_finish(Request_append(@, Item))]
            ELSE requests
    /\ UNCHANGED <<requests_by_id, callerVars, nextValidOrderId, cacheVars,
                   descrVars, sent, ghost, queueVars>>

\* contractDetails: the record is cached under the hash of its contract when
\* that hash is new, and appended unless the request is finished.
contractDetails(reqId, con) ==
    /\ Deliver
    /\ cds' = cds @@ (Item :> con)
    /\ LET h == Contract_hash(con)
       IN cached_details' =
            IF h \notin DOMAIN cached_details
            THEN cached_details @@ (h :> <<Item>>)
            ELSE cached_details
    /\ requests' = GuardedAppend(reqId, Item)
    /\ UNCHANGED <<requests_by_id, callerVars, nextValidOrderId, descrVars,
                   sent, ghost, queueVars>>

\* A contractDetailsEnd that records "nothing found" in the cache, under the
\* hash of the first record or under no hash when nothing was delivered.
contractDetailsEnd_caching_empty(reqId) ==
    /\ requests' = FinishById(reqId)
    /\ LET h == Results_get(reqId)
       IN cached_details' =
            IF h # 0 /\ requests[h].items = <<>>
                /\ <<"none">> \notin DOMAIN cached_details
            THEN cached_details @@ (<<"none">> :> <<>>)
            ELSE cached_details
    /\ UNCHANGED <<requests_by_id, callerVars, nitems, nextValidOrderId,
                   cds, descrVars, sent, ghost, queueVars>>

contractDetailsEnd(reqId) ==
    /\ requests' = FinishById(reqId)
    /\ UNCHANGED <<requests_by_id, callerVars, nitems, nextValidOrderId,
                   cacheVars, descrVars, sent, ghost, queueVars>>

position(account) ==
    /\ Deliver
    /\ IF account # account_id
       THEN UNCHANGED <<requests, ghost>>
       ELSE /\ requests' = AppendToLastActive("positions", Item)
            /\ ghost' = GhostData("positions", Item)
    /\ UNCHANGED <<requests_by_id, callerVars, nextValidOrderId, cacheVars,
                   descrVars, sent, queueVars>>

positionEnd ==
    /\ requests' = Results_finish(requests, requests_by_id, "positions")
    /\ ghost' = GhostEnd(ghost, {"positions"})
    /\ UNCHANGED <<requests_by_id, callerVars, nitems, nextValidOrderId,
                   cacheVars, descrVars, sent, queueVars>>

updateAccountValue(accountName) ==
    /\ Deliver
    /\ IF accountName # account_id
       THEN UNCHANGED <<requests, ghost>>
       ELSE /\ requests' = AppendToLastActive("account", Item)
            /\ ghost' = GhostData("account", Item)
    /\ UNCHANGED <<requests_by_id, callerVars, nextValidOrderId, cacheVars,
                   descrVars, sent, queueVars>>

updatePortfolio(accountName) ==
    /\ Deliver
    /\ IF accountName # account_id
       THEN UNCHANGED <<requests, ghost>>
       ELSE /\ requests' = AppendToLastActive("portfolio", Item)
            /\ ghost' = GhostData("portfolio", Item)
    /\ UNCHANGED <<requests_by_id, callerVars, nextValidOrderId, cacheVars,
                   descrVars, sent, queueVars>>

accountDownloadEnd ==
    /\ requests' = Results_finish(
                       Results_finish(requests, requests_by_id, "account"),
                       requests_by_id, "portfolio")
    /\ ghost' = GhostEnd(ghost, {"account", "portfolio"})
    /\ UNCHANGED <<requests_by_id, callerVars, nitems, nextValidOrderId,
                   cacheVars, descrVars, sent, queueVars>>

\* openOrder: the entry registered under orderId if there is one, else the
\* last active open_orders entry, else the placeholder; appended unguarded.
openOrder(orderId) ==
    /\ Deliver
    /\ LET h == Results_get(orderId)
           act == Results_active("open_orders")
           target == IF h # 0 THEN h
                     ELSE IF act # <<>> THEN act[Len(act)] ELSE 0
       IN requests' =
            IF target # 0
            THEN [requests EXCEPT ![target] = Request_append(@, Item)]
            ELSE requests
    /\ ghost' = GhostData("open_orders", Item)
    /\ UNCHANGED <<requests_by_id, callerVars, nextValidOrderId, cacheVars,
                   descrVars, sent, queueVars>>

openOrderEnd ==
    /\ requests' = Results_finish(requests, requests_by_id, "open_orders")
    /\ ghost' = GhostEnd(ghost, {"open_orders"})
    /\ UNCHANGED <<requests_by_id, callerVars, nitems, nextValidOrderId,
                   cacheVars, descrVars, sent, queueVars>>

completedOrder ==
    /\ Deliver
    /\ requests' = AppendToLastActive("completed_orders", Item)
    /\ ghost' = GhostData("completed_orders", Item)
    /\ UNCHANGED <<requests_by_id, callerVars, nextValidOrderId, cacheVars,
                   descrVars, sent, queueVars>>

completedOrdersEnd ==
    /\ requests' = Results_finish(requests, requests_by_id, "completed_orders")
    /\ ghost' = GhostEnd(ghost, {"completed_orders"})
    /\ UNCHANGED <<requests_by_id, callerVars, nitems, nextValidOrderId,
                   cacheVars, descrVars, sent, queueVars>>

nextValidId(orderId) ==
    /\ nextValidOrderId' = orderId
    /\ requests' = Results_finish(requests, requests_by_id, "next_order_id")
    /\ ghost' = GhostEnd(ghost, {"next_order_id"})
    /\ UNCHANGED <<requests_by_id, callerVars, nitems, cacheVars, descrVars,
                   sent, queueVars>>

\* A variant of error that writes the code and the message and leaves the
\* entry open; C4 must not hold of it.
error_without_finish(reqId, errorCode, errorString) ==
    /\ LET h == Results_get(reqId)
       IN IF errorCode \in INFO_CODES \/ h = 0
          THEN UNCHANGED requests
          ELSE requests' = [requests EXCEPT ![h] = [@ EXCEPT !.code = errorCode,
                                                            !.error = errorString]]
    /\ UNCHANGED <<requests_by_id, callerVars, nitems, nextValidOrderId,
                   cacheVars, descrVars, sent, ghost, queueVars>>

\* An error handler without the test for informational codes.
error_unfiltered(reqId, errorCode, errorString) ==
    /\ LET h == Results_get(reqId)
       IN IF h = 0
          THEN UNCHANGED <<requests, ghost>>
          ELSE /\ requests' =
                    [requests EXCEPT ![h] =
                        Request_finish([@ EXCEPT !.code = errorCode,
                                                 !.error = errorString])]
               /\ ghost' =
                    IF requests[h].finished THEN ghost
                    ELSE [ghost EXCEPT ![h].byError = TRUE,
                                       ![h].message = errorString]
    /\ UNCHANGED <<requests_by_id, callerVars, nitems, nextValidOrderId,
                   cacheVars, descrVars, sent, queueVars>>

\* error: informational codes are only logged; any other code is written to
\* Results.get(id=reqId), which is then finished.
error(reqId, errorCode, errorString) ==
    /\ LET h == Results_get(reqId)
       IN IF errorCode \in INFO_CODES \/ h = 0
          THEN UNCHANGED <<requests, ghost>>
          ELSE /\ requests' =
                    [requests EXCEPT ![h] =
                        Request_finish([@ EXCEPT !.code = errorCode,
                                                 !.error = errorString])]
               /\ ghost' =
                    IF requests[h].finished THEN ghost
                    ELSE [ghost EXCEPT ![h].byError = TRUE,
                                       ![h].message = errorString]
    /\ UNCHANGED <<requests_by_id, callerVars, nitems, nextValidOrderId,
                   cacheVars, descrVars, sent, queueVars>>

\* ------------------------------------------------------------ callers
\* A caller thread runs one facade operation at a time:
\*   idle -> wait (polling under a Timer) -> post (the loop is left) -> an outcome
\* and starts its next call from any outcome.
Last(q) == q[Len(q)]

CanStart(c) ==
    /\ pc[c] \in {"idle"} \cup Terminal
    /\ ncalls[c] < MaxCalls

\* The head of a facade operation: Results.request, the send, Timer.__enter__.
Start(c, o, type, id) ==
    /\ CanStart(c)
    /\ ncalls' = [ncalls EXCEPT ![c] = @ + 1]
    /\ LET r == Results_request(requests, requests_by_id, type, id)
       IN /\ requests' = r.requests
          /\ requests_by_id' = r.by_id
          /\ hs' = [hs EXCEPT ![c] = <<r.h>>]
    /\ ghost' = GhostRequest(requests, requests_by_id, ghost, type, id)
    /\ sent' = sent + 1 /\ UNCHANGED queueVars
    /\ pc' = [pc EXCEPT ![c] = "wait"]
    /\ op' = [op EXCEPT ![c] = o]
    /\ elapsed' = [elapsed EXCEPT ![c] = 0]
    /\ result' = [result EXCEPT ![c] = <<>>]
    /\ exc' = [exc EXCEPT ![c] = <<>>]
    /\ UNCHANGED <<nitems, nextValidOrderId, cacheVars>>

get_next_order_id(c, rid) ==
    /\ Start(c, "get_next_order_id", "next_order_id", rid)
    /\ UNCHANGED descrVars

get_positions(c, rid) ==
    /\ Start(c, "get_positions", "positions", rid)
    /\ UNCHANGED descrVars

\* place_order: the Request is registered under order.orderId; Results.request
\* draws a random id when that is 0.
place_order(c, orderId, rid) ==
    /\ Start(c, "place_order", "place_order", IF orderId # 0 THEN orderId ELSE rid)
    /\ UNCHANGED descrVars

get_orders(c, rid) ==
    /\ Start(c, "get_orders", "open_orders", rid)
    /\ UNCHANGED descrVars

get_completed_api_orders(c, rid) ==
    /\ Start(c, "get_completed_api_orders", "completed_orders", rid)
    /\ UNCHANGED descrVars

get_executions(c, rid) ==
    /\ Start(c, "get_executions", "executions", rid)
    /\ UNCHANGED descrVars

get_historical_data(c, rid) ==
    /\ Start(c, "get_historical_data", "historical_data", rid)
    /\ UNCHANGED descrVars

get_head_timestamp(c, rid) ==
    /\ Start(c, "get_head_timestamp", "head_timestamp", rid)
    /\ UNCHANGED descrVars

\* get_contract_details: NASDAQ is rewritten to ISLAND on the descriptor
\* before the request is registered and sent.
Island(x) == IF x = "NASDAQ" THEN "ISLAND" ELSE x

get_contract_details(c, con, rid) ==
    /\ Start(c, "get_contract_details", "contract_details", rid)
    /\ contract' = [contract EXCEPT ![c] =
                       [con EXCEPT !.exchange = Island(@),
                                   !.primaryExchange = Island(@)]]
    /\ UNCHANGED keep

\* get_account_info: two Requests, then one subscription request.
get_account_info(c, rid1, rid2) ==
    /\ CanStart(c)
    /\ ncalls' = [ncalls EXCEPT ![c] = @ + 1]
    /\ LET r1 == Results_request(requests, requests_by_id, "account", rid1)
           g1 == GhostRequest(requests, requests_by_id, ghost, "account", rid1)
           r2 == Results_request(r1.requests, r1.by_id, "portfolio", rid2)
       IN /\ requests' = r2.requests
          /\ requests_by_id' = r2.by_id
          /\ hs' = [hs EXCEPT ![c] = <<r1.h, r2.h>>]
          /\ ghost' = GhostRequest(r1.requests, r1.by_id, g1, "portfolio", rid2)
    /\ sent' = sent + 1 /\ UNCHANGED queueVars
    /\ pc' = [pc EXCEPT ![c] = "wait"]
    /\ op' = [op EXCEPT ![c] = "get_account_info"]
    /\ elapsed' = [elapsed EXCEPT ![c] = 0]
    /\ result' = [result EXCEPT ![c] = <<>>]
    /\ exc' = [exc EXCEPT ![c] = <<>>]
    /\ UNCHANGED <<nitems, nextValidOrderId, cacheVars, descrVars>>

\* ------------------------------------------------------------ Timer
\* A variant of Ready under which every poll loop is left on the first item,
\* as place_order's is; C7 must not hold of it.
Ready_on_first_item(c) ==
    \A i \in DOMAIN hs[c] :
        requests[hs[c][i]].finished \/ Len(requests[hs[c][i]].items) > 0

\* The loop condition of the operation's poll loop, negated.
Ready(c) ==
    CASE op[c] = "place_order" ->
            requests[hs[c][1]].finished \/ Len(requests[hs[c][1]].items) > 0
      [] op[c] = "get_account_info" ->
            requests[hs[c][1]].finished /\ requests[hs[c][2]].finished
      [] OTHER -> requests[Last(hs[c])].finished

\* Timer.wait and Timer.__exit__: `monotonic() - start_time > timeout`
Expired(c) == elapsed[c] > TIMEOUT

\* A variant of Timer_raise that starts the Timer again and goes on
\* polling; C3 must not hold of it.
Timer_restart(c) ==
    /\ pc[c] = "wait"
    /\ Expired(c)
    /\ elapsed' = [elapsed EXCEPT ![c] = 0]
    /\ UNCHANGED <<registryVars, pc, op, hs, ncalls, result, exc, nitems,
                   nextValidOrderId, cacheVars, descrVars, sent, ghost, queueVars>>

\* Timer.wait raises TimeoutError in the loop, Timer.__exit__ after it.
Timer_raise(c) ==
    /\ pc[c] = "wait"
    /\ Expired(c)
    /\ pc' = [pc EXCEPT ![c] = "timeout"]
    /\ elapsed' = [elapsed EXCEPT ![c] = 0]
    /\ UNCHANGED <<registryVars, op, hs, ncalls, result, exc, nitems, nextValidOrderId,
                   cacheVars, descrVars, sent, ghost, queueVars>>

\* Request.wait (and the operations' own loops) left in time.
Request_wait(c) ==
    /\ pc[c] = "wait"
    /\ Ready(c)
    /\ ~Expired(c)
    /\ ~(op[c] = "get_orders" /\ Len(hs[c]) = 1)
    /\ pc' = [pc EXCEPT ![c] = "post"]
    /\ elapsed' = [elapsed EXCEPT ![c] = 0]
    /\ UNCHANGED <<registryVars, op, hs, ncalls, result, exc, nitems, nextValidOrderId,
                   cacheVars, descrVars, sent, ghost, queueVars>>

\* get_orders after its first wait: the completed_orders Request, its send
\* and a new Timer.
get_orders_completed(c, rid) ==
    /\ pc[c] = "wait"
    /\ op[c] = "get_orders" /\ Len(hs[c]) = 1
    /\ Ready(c)
    /\ ~Expired(c)
    /\ LET r == Results_request(requests, requests_by_id, "completed_orders", rid)
       IN /\ requests' = r.requests
          /\ requests_by_id' = r.by_id
          /\ hs' = [hs EXCEPT ![c] = Append(@, r.h)]
    /\ ghost' = GhostRequest(requests, requests_by_id, ghost,
                             "completed_orders", rid)
    /\ sent' = sent + 1 /\ UNCHANGED queueVars
    /\ elapsed' = [elapsed EXCEPT ![c] = 0]
    /\ UNCHANGED <<pc, op, ncalls, result, exc, nitems, nextValidOrderId,
                   cacheVars, descrVars>>

\* One second passes for every Timer that has not expired yet.
Tick ==
    /\ \E c \in Callers : pc[c] = "wait" /\ ~Expired(c)
    /\ elapsed' = [c \in Callers |->
                      IF pc[c] = "wait" /\ ~Expired(c)
                      THEN elapsed[c] + 1 ELSE elapsed[c]]
    /\ UNCHANGED <<registryVars, pc, op, hs, ncalls, result, exc, nitems,
                   nextValidOrderId, cacheVars, descrVars, sent, ghost, queueVars>>

\* ------------------------------------------------------------ returns
\* The tail of each facade operation, after its poll loop.
\*
\* The pass `for contract in request: self.qualify_contract(contract)` has
\* nothing to do on an empty list and may raise (ValueError, TimeoutError) on
\* any other; qualify_contract itself is modelled below.
QualifyPass(items) == IF items = <<>> THEN {TRUE} ELSE {TRUE, FALSE}

Return(c, value) ==
    /\ pc' = [pc EXCEPT ![c] = "done"]
    /\ result' = [result EXCEPT ![c] = value]
    /\ UNCHANGED exc

Raise(c, kind, message) ==
    /\ pc' = [pc EXCEPT ![c] = kind]
    /\ exc' = [exc EXCEPT ![c] = message]
    /\ UNCHANGED result

AtReturn(c, o) == pc[c] = "post" /\ op[c] = o

get_next_order_id_return(c) ==
    /\ AtReturn(c, "get_next_order_id")
    /\ nextValidOrderId' = nextValidOrderId + 1
    /\ Return(c, <<nextValidOrderId' - 1>>)
    /\ UNCHANGED <<registryVars, op, hs, ncalls, elapsed, nitems, cacheVars, descrVars,
                   sent, ghost, queueVars>>

ReturnList(c, o, qualified) ==
    /\ AtReturn(c, o)
    /\ LET items == requests[hs[c][1]].items
       IN \E ok \in (IF qualified THEN QualifyPass(items) ELSE {TRUE}) :
            IF ok THEN Return(c, items) ELSE Raise(c, "qualify_error", <<>>)
    /\ UNCHANGED <<registryVars, op, hs, ncalls, elapsed, nitems, nextValidOrderId,
                   cacheVars, descrVars, sent, ghost, queueVars>>

get_positions_return(c) == ReturnList(c, "get_positions", TRUE)

get_executions_return(c) == ReturnList(c, "get_executions", TRUE)

get_completed_api_orders_return(c) ==
    ReturnList(c, "get_completed_api_orders", TRUE)

get_contract_details_return(c) == ReturnList(c, "get_contract_details", FALSE)

\* place_order: qualify, then `if request.error: raise Exception(request.error)`
\* else `list(request)[0]`.
place_order_return(c) ==
    /\ AtReturn(c, "place_order")
    /\ LET r == requests[hs[c][1]]
       IN \E ok \in QualifyPass(r.items) :
            IF ~ok THEN Raise(c, "qualify_error", <<>>)
            ELSE IF r.error # <<>> THEN Raise(c, "error", r.error)
            ELSE IF r.items = <<>> THEN Raise(c, "index_error", <<>>)
            ELSE Return(c, <<r.items[1]>>)
    /\ UNCHANGED <<registryVars, op, hs, ncalls, elapsed, nitems, nextValidOrderId,
                   cacheVars, descrVars, sent, ghost, queueVars>>

\* get_orders: both lists are qualified, and so is every order openOrder or
\* completedOrder ever stored in _orders_by_pid.
get_orders_return(c) ==
    /\ AtReturn(c, "get_orders")
    /\ LET all == requests[hs[c][1]].items \o requests[hs[c][2]].items
       IN \E ok \in (IF nitems = 0 THEN {TRUE} ELSE {TRUE, FALSE}) :
            IF ok THEN Return(c, all) ELSE Raise(c, "qualify_error", <<>>)
    /\ UNCHANGED <<registryVars, op, hs, ncalls, elapsed, nitems, nextValidOrderId,
                   cacheVars, descrVars, sent, ghost, queueVars>>

\* get_account_info: the unsubscription is sent, the portfolio is qualified,
\* the account rows and the portfolio are returned.
get_account_info_return(c) ==
    /\ AtReturn(c, "get_account_info")
    /\ sent' = sent + 1 /\ UNCHANGED queueVars
    /\ LET account == requests[hs[c][1]].items
           portfolio == requests[hs[c][2]].items
       IN \E ok \in QualifyPass(portfolio) :
            IF ok THEN Return(c, <<account, portfolio>>)
            ELSE Raise(c, "qualify_error", <<>>)
    /\ UNCHANGED <<registryVars, op, hs, ncalls, elapsed, nitems, nextValidOrderId,
                   cacheVars, descrVars, ghost>>

\* `"query returned no data" in request.error`
NoData(message) == \E i \in DOMAIN message : message[i] = NO_DATA

\* A variant of get_historical_data_return that looks at the buffer before
\* the error; C6 must not hold of it.
get_historical_data_return_buffer_first(c) ==
    /\ AtReturn(c, "get_historical_data")
    /\ LET r == requests[hs[c][1]]
       IN IF r.items # <<>> THEN Return(c, r.items)
          ELSE IF r.error = <<>> \/ NoData(r.error) THEN Return(c, <<>>)
          ELSE Raise(c, "error", r.error)
    /\ UNCHANGED <<registryVars, op, hs, ncalls, elapsed, nitems,
                   nextValidOrderId, cacheVars, descrVars, sent, ghost, queueVars>>

get_historical_data_return(c) ==
    /\ AtReturn(c, "get_historical_data")
    /\ LET r == requests[hs[c][1]]
       IN IF r.error # <<>>
          THEN IF NoData(r.error) THEN Return(c, <<>>)
               ELSE Raise(c, "error", r.error)
          ELSE Return(c, r.items)
    /\ UNCHANGED <<registryVars, op, hs, ncalls, elapsed, nitems, nextValidOrderId,
                   cacheVars, descrVars, sent, ghost, queueVars>>

\* get_head_timestamp: `list(request)[0]`
get_head_timestamp_return(c) ==
    /\ AtReturn(c, "get_head_timestamp")
    /\ LET r == requests[hs[c][1]]
       IN IF r.items = <<>> THEN Raise(c, "index_error", <<>>)
          ELSE Return(c, <<r.items[1]>>)
    /\ UNCHANGED <<registryVars, op, hs, ncalls, elapsed, nitems, nextValidOrderId,
                   cacheVars, descrVars, sent, ghost, queueVars>>

\* ------------------------------------------------------------ resolution
\* The records the gateway holds: a future, the continuous future that
\* shares its conId, and a stock.
ZCH4 ==
    [Contract EXCEPT !.secType = "FUT", !.conId = 1, !.symbol = "ZC",
        !.lastTradeDateOrContractMonth = <<"20240314", "13:20:00", "US/Central">>,
        !.exchange = "CBOT", !.currency = "USD", !.localSymbol = "ZCH4"]
ZC_CONT == [ZCH4 EXCEPT !.secType = "CONTFUT"]
URA ==
    [Contract EXCEPT !.secType = "STK", !.conId = 2, !.symbol = "URA",
        !.exchange = "SMART", !.primaryExchange = "ARCA", !.currency = "USD"]
Canon == {ZCH4, ZC_CONT, URA}

\* The descriptors callers build: by numeric id, and by fields.
Descriptors ==
    {[Contract EXCEPT !.conId = 1],
     [Contract EXCEPT !.secType = "CONTFUT", !.conId = 1],
     [Contract EXCEPT !.secType = "STK", !.symbol = "URA", !.exchange = "SMART",
                      !.primaryExchange = "NASDAQ", !.currency = "USD"]}

\* The lookup key of _get_cached_details.
LookupKey(con) ==
    IF con.conId # 0 THEN [Contract EXCEPT !.conId = con.conId]
    ELSE [con EXCEPT !.includeExpired = TRUE]

\* Contract(...): the caller builds a new descriptor object.
new_contract(c, con) ==
    /\ pc[c] \in {"idle"} \cup Terminal
    /\ contract' = [contract EXCEPT ![c] = con]
    /\ UNCHANGED <<registryVars, callerVars, nitems, nextValidOrderId,
                   cacheVars, keep, sent, ghost, queueVars>>

\* `[d.contract.conId for d in details]`
Variants(details) == [i \in DOMAIN details |-> cds[details[i]].conId]

\* A variant of Qualify that takes the first of several candidates instead
\* of failing; C11 must not hold of it.
Qualify_first_candidate(c, details, keep_exchange) ==
    IF details = <<>>
    THEN /\ Raise(c, "qualify_error", <<"Unknown contract">>)
         /\ UNCHANGED <<contract, cds>>
    ELSE LET n == details[1]
             c0 == cds[n]
             c1 == IF c0.lastTradeDateOrContractMonth # <<>>
                   THEN [c0 EXCEPT !.lastTradeDateOrContractMonth = <<Head(@)>>]
                   ELSE c0
             c2 == IF keep_exchange
                   THEN [c1 EXCEPT !.exchange = contract[c].exchange]
                   ELSE c1
         IN /\ cds' = [cds EXCEPT ![n] = c2]
            /\ contract' = [contract EXCEPT ![c] = [c2 EXCEPT !.details = n]]
            /\ pc' = [pc EXCEPT ![c] = "done"]
            /\ result' = [result EXCEPT ![c] = <<contract'[c]>>]
            /\ UNCHANGED exc

\* A variant of Qualify that fills only the descriptor's blank fields;
\* C12 must not hold of it.
Qualify_blank_fields_only(c, details, keep_exchange) ==
    IF details = <<>>
    THEN /\ Raise(c, "qualify_error", <<"Unknown contract">>)
         /\ UNCHANGED <<contract, cds>>
    ELSE IF Len(details) > 1
    THEN /\ Raise(c, "qualify_error", <<"Ambiguous contract", Variants(details)>>)
         /\ UNCHANGED <<contract, cds>>
    ELSE LET n == details[1]
             c0 == cds[n]
             c1 == IF c0.lastTradeDateOrContractMonth # <<>>
                   THEN [c0 EXCEPT !.lastTradeDateOrContractMonth = <<Head(@)>>]
                   ELSE c0
             c2 == IF keep_exchange
                   THEN [c1 EXCEPT !.exchange = contract[c].exchange]
                   ELSE c1
         IN /\ cds' = [cds EXCEPT ![n] = c2]
            /\ contract' = [contract EXCEPT ![c] =
                   [f \in DOMAIN Contract |->
                       IF f = "details" THEN n
                       ELSE IF contract[c][f] = Contract[f] THEN c2[f]
                       ELSE contract[c][f]]]
            /\ pc' = [pc EXCEPT ![c] = "done"]
            /\ result' = [result EXCEPT ![c] = <<contract'[c]>>]
            /\ UNCHANGED exc

\* The tail of qualify_contract on the list `details` of item numbers.
\* With one record: its contract c loses the time part of its expiry and,
\* under keep_exchange, takes the descriptor's exchange; every field of c is
\* then set on the descriptor, and the descriptor's details attribute.
Qualify(c, details, keep_exchange) ==
    IF details = <<>>
    THEN /\ Raise(c, "qualify_error", <<"Unknown contract">>)
         /\ UNCHANGED <<contract, cds>>
    ELSE IF Len(details) > 1
    THEN /\ Raise(c, "qualify_error", <<"Ambiguous contract", Variants(details)>>)
         /\ UNCHANGED <<contract, cds>>
    ELSE LET n == details[1]
             c0 == cds[n]
             c1 == IF c0.lastTradeDateOrContractMonth # <<>>
                   THEN [c0 EXCEPT !.lastTradeDateOrContractMonth = <<Head(@)>>]
                   ELSE c0
             c2 == IF keep_exchange
                   THEN [c1 EXCEPT !.exchange = contract[c].exchange]
                   ELSE c1
         IN /\ cds' = [cds EXCEPT ![n] = c2]
            /\ contract' = [contract EXCEPT ![c] = [c2 EXCEPT !.details = n]]
            /\ pc' = [pc EXCEPT ![c] = "done"]
            /\ result' = [result EXCEPT ![c] = <<contract'[c]>>]
            /\ UNCHANGED exc

\* A variant of qualify_contract without the early return on a resolved
\* descriptor; C10 must not hold of it.
qualify_contract_without_early_return(c, keep_exchange, rid) ==
    /\ pc[c] \in {"idle"} \cup Terminal
    /\ op' = [op EXCEPT ![c] = "qualify_contract"]
    /\ keep' = [keep EXCEPT ![c] = keep_exchange]
    /\ LET h == Contract_hash(LookupKey(contract[c]))
       IN IF h \in DOMAIN cached_details
          THEN /\ Qualify(c, cached_details[h], keep_exchange)
               /\ UNCHANGED <<registryVars, hs, ncalls, elapsed, sent, ghost, queueVars>>
          ELSE /\ ncalls[c] < MaxCalls
               /\ ncalls' = [ncalls EXCEPT ![c] = @ + 1]
               /\ LET r == Results_request(requests, requests_by_id,
                                           "contract_details", rid)
                  IN /\ requests' = r.requests
                     /\ requests_by_id' = r.by_id
                     /\ hs' = [hs EXCEPT ![c] = <<r.h>>]
               /\ ghost' = GhostRequest(requests, requests_by_id, ghost,
                                        "contract_details", rid)
               /\ sent' = sent + 1 /\ UNCHANGED queueVars
               /\ pc' = [pc EXCEPT ![c] = "wait"]
               /\ elapsed' = [elapsed EXCEPT ![c] = 0]
               /\ result' = [result EXCEPT ![c] = <<>>]
               /\ exc' = [exc EXCEPT ![c] = <<>>]
               /\ UNCHANGED <<contract, cds>>
    /\ UNCHANGED <<nitems, nextValidOrderId, cached_details>>

\* qualify_contract(contract, keep_exchange) on the caller's descriptor, up to
\* its poll loop: the early return on a resolved descriptor, the cache hit,
\* or the details request on a miss.
qualify_contract(c, keep_exchange, rid) ==
    /\ pc[c] \in {"idle"} \cup Terminal
    /\ op' = [op EXCEPT ![c] = "qualify_contract"]
    /\ keep' = [keep EXCEPT ![c] = keep_exchange]
    /\ IF contract[c].details # 0
       THEN /\ pc' = [pc EXCEPT ![c] = "done"]
            /\ result' = [result EXCEPT ![c] = <<contract[c]>>]
            /\ UNCHANGED <<registryVars, hs, ncalls, elapsed, exc, cds,
                           contract, sent, ghost, queueVars>>
       ELSE LET h == Contract_hash(LookupKey(contract[c]))
            IN IF h \in DOMAIN cached_details
               THEN /\ Qualify(c, cached_details[h], keep_exchange)
                    /\ UNCHANGED <<registryVars, hs, ncalls, elapsed, sent, queueVars,
                                   ghost>>
               ELSE /\ ncalls[c] < MaxCalls
                    /\ ncalls' = [ncalls EXCEPT ![c] = @ + 1]
                    /\ LET r == Results_request(requests, requests_by_id,
                                                "contract_details", rid)
                       IN /\ requests' = r.requests
                          /\ requests_by_id' = r.by_id
                          /\ hs' = [hs EXCEPT ![c] = <<r.h>>]
                    /\ ghost' = GhostRequest(requests, requests_by_id, ghost,
                                             "contract_details", rid)
                    /\ sent' = sent + 1 /\ UNCHANGED queueVars
                    /\ pc' = [pc EXCEPT ![c] = "wait"]
                    /\ elapsed' = [elapsed EXCEPT ![c] = 0]
                    /\ result' = [result EXCEPT ![c] = <<>>]
                    /\ exc' = [exc EXCEPT ![c] = <<>>]
                    /\ UNCHANGED <<contract, cds>>
    /\ UNCHANGED <<nitems, nextValidOrderId, cached_details>>

\* qualify_contract after get_contract_details returned list(request).
qualify_contract_return(c) ==
    /\ AtReturn(c, "qualify_contract")
    /\ Qualify(c, requests[hs[c][1]].items, keep[c])
    /\ UNCHANGED <<registryVars, op, hs, ncalls, elapsed, nitems,
                   nextValidOrderId, cached_details, keep, sent, ghost, queueVars>>

\* ------------------------------------------------------------ system
Init ==
    /\ requests = <<>>
    /\ requests_by_id = <<>>
    /\ pc = [c \in Callers |-> "idle"]
    /\ op = [c \in Callers |-> ""]
    /\ hs = [c \in Callers |-> <<>>]
    /\ ncalls = [c \in Callers |-> 0]
    /\ elapsed = [c \in Callers |-> 0]
    /\ result = [c \in Callers |-> <<>>]
    /\ exc = [c \in Callers |-> <<>>]
    /\ nitems = 0
    /\ nextValidOrderId = 0 - 1
    /\ cds = <<>>
    /\ cached_details = <<>>
    /\ contract = [c \in Callers |-> Contract]
    /\ keep = [c \in Callers |-> FALSE]
    /\ sent = 0
    /\ msg_queue = <<>>
    /\ dispatched = <<>>
    /\ taken = [t \in Threads |-> <<>>]
    /\ ghost = <<>>

\* The ids the gateway was given in requests of the types.
SentIds(types) ==
    {requests[h].id : h \in {k \in DOMAIN requests : requests[k].type \in types}}

IdTypes ==
    {"historical_data", "executions", "contract_details", "head_timestamp",
     "place_order"}

\* What caller thread c does.
Calls(c) ==
        \/ \E rid \in Ids :
            \/ get_next_order_id(c, rid)
            \/ get_positions(c, rid)
            \/ \E orderId \in {0} \cup Ids : place_order(c, orderId, rid)
            \/ get_orders(c, rid)
            \/ get_orders_completed(c, rid)
            \/ get_completed_api_orders(c, rid)
            \/ get_executions(c, rid)
            \/ get_historical_data(c, rid)
            \/ get_head_timestamp(c, rid)
            \/ get_contract_details(c, [Contract EXCEPT !.conId = 1], rid)
            \/ \E rid2 \in Ids : get_account_info(c, rid, rid2)
        \/ Timer_raise(c)
        \/ Request_wait(c)
        \/ get_next_order_id_return(c)
        \/ get_positions_return(c)
        \/ place_order_return(c)
        \/ get_orders_return(c)
        \/ get_completed_api_orders_return(c)
        \/ get_executions_return(c)
        \/ get_historical_data_return(c)
        \/ get_head_timestamp_return(c)
        \/ get_contract_details_return(c)
        \/ get_account_info_return(c)

\* What the delivery thread does: the gateway answers with the ids it was
\* given, and -1 where an error belongs to no request.
Deliveries ==
    \/ \E reqId \in SentIds({"historical_data"}) :
            historicalData(reqId) \/ historicalDataEnd(reqId)
    \/ \E reqId \in SentIds({"executions"}) :
            execDetails(reqId) \/ execDetailsEnd(reqId)
    \/ \E reqId \in SentIds({"head_timestamp"}) : headTimestamp(reqId)
    \/ \E reqId \in SentIds({"contract_details"}) :
            contractDetails(reqId, ZCH4) \/ contractDetailsEnd(reqId)
    \/ \E account \in Accounts :
            position(account) \/ updateAccountValue(account)
                \/ updatePortfolio(account)
    \/ positionEnd
    \/ accountDownloadEnd
    \/ \E orderId \in {0} \cup SentIds({"place_order"}) : openOrder(orderId)
    \/ openOrderEnd
    \/ completedOrder
    \/ completedOrdersEnd
    \/ \E orderId \in Ids : nextValidId(orderId)
    \/ \E reqId \in {0 - 1} \cup SentIds(IdTypes), code \in Codes, msg \in Msgs :
            error(reqId, code, msg)

Next ==
    \/ Calls(1)
    \/ Deliveries
    \/ Tick

\* One caller thread, every bridge operation, every callback.
Spec == Init /\ [][Next]_vars

\* The same system with the clock running and the caller thread scheduled:
\* time.monotonic advances, and a sleeping poll loop wakes up.
FairSpec ==
    /\ Spec
    /\ WF_vars(Tick)
    /\ WF_vars(Timer_raise(1))

\* Two caller threads in get_positions and the delivery thread.
ConcNext ==
    \/ \E c \in Callers :
        \/ \E rid \in Ids : get_positions(c, rid)
        \/ Timer_raise(c)
        \/ Request_wait(c)
        \/ get_positions_return(c)
    \/ \E account \in Accounts : position(account)
    \/ positionEnd
    \/ Tick

ConcSpec == Init /\ [][ConcNext]_vars

\* One caller thread resolving descriptors, and the delivery thread answering
\* the details requests with the gateway's records.
QNext ==
    \/ \E con \in Descriptors : new_contract(1, con)
    \/ \E keep_exchange \in BOOLEAN, rid \in Ids :
            qualify_contract(1, keep_exchange, rid)
    \/ qualify_contract_return(1)
    \/ Timer_raise(1)
    \/ Request_wait(1)
    \/ \E reqId \in SentIds({"contract_details"}) :
        \/ \E con \in Canon : contractDetails(reqId, con)
        \/ contractDetailsEnd(reqId)
        \/ \E code \in Codes, msg \in Msgs : error(reqId, code, msg)
    \/ Tick

QSpec == Init /\ [][QNext]_vars

\* ------------------------------------------------------------ hashing
\* The descriptors whose hashes are compared: with and without numeric id,
\* of every asset class held in the model, equal and unequal in other fields.
HashIds == {0, 1, 2}
HashInputs ==
    {[Contract EXCEPT !.conId = n, !.secType = t, !.symbol = s, !.exchange = e] :
        n \in HashIds, t \in {"STK", "FUT", "CONTFUT"}, s \in {"ZC", "URA"},
        e \in {"", "CBOT"}}

\* Two descriptors are given, none hashed yet.
HInit ==
    /\ requests = <<>>
    /\ requests_by_id = <<>>
    /\ pc = [c \in Callers |-> "idle"]
    /\ op = [c \in Callers |-> ""]
    /\ hs = [c \in Callers |-> <<>>]
    /\ ncalls = [c \in Callers |-> 0]
    /\ elapsed = [c \in Callers |-> 0]
    /\ result = [c \in Callers |-> <<>>]
    /\ exc = [c \in Callers |-> <<>>]
    /\ nitems = 0
    /\ nextValidOrderId = 0 - 1
    /\ cds = <<>>
    /\ cached_details = <<>>
    /\ contract \in [Callers -> HashInputs]
    /\ keep = [c \in Callers |-> FALSE]
    /\ sent = 0
    /\ msg_queue = <<>>
    /\ dispatched = <<>>
    /\ taken = [t \in Threads |-> <<>>]
    /\ ghost = <<>>

\* h = hash(contract) of descriptor c.
hash(c) ==
    /\ pc[c] = "idle"
    /\ pc' = [pc EXCEPT ![c] = "done"]
    /\ op' = [op EXCEPT ![c] = "hash"]
    /\ result' = [result EXCEPT ![c] = <<Contract_hash(contract[c])>>]
    /\ UNCHANGED <<hs, ncalls, elapsed, exc, registryVars, cacheVars,
                   descrVars, nitems, nextValidOrderId, sent, ghost, queueVars>>

\* contract == other for descriptor c, once hashed, against the other
\* descriptor; the truth value is put beside the hash.
eq(c) ==
    /\ pc[c] = "done" /\ op[c] = "hash"
    /\ op' = [op EXCEPT ![c] = "eq"]
    /\ \E d \in Callers \ {c} :
          result' = [result EXCEPT
                        ![c] = Append(@, Contract_eq(contract[c], contract[d]))]
    /\ UNCHANGED <<pc, hs, ncalls, elapsed, exc, registryVars, cacheVars,
                   descrVars, nitems, nextValidOrderId, sent, ghost, queueVars>>

HNext == \E c \in Callers : hash(c) \/ eq(c)

HSpec == HInit /\ [][HNext]_vars

\* ------------------------------------------------------------ symbolic ids
\* In the codec a string is the sequence of its characters.
LOWER ==
    <<"a", "b", "c", "d", "e", "f", "g", "h", "i", "j", "k", "l", "m",
      "n", "o", "p", "q", "r", "s", "t", "u", "v", "w", "x", "y", "z">>
UPPER ==
    <<"A", "B", "C", "D", "E", "F", "G", "H", "I", "J", "K", "L", "M",
      "N", "O", "P", "Q", "R", "S", "T", "U", "V", "W", "X", "Y", "Z">>
DIGITS == <<"0", "1", "2", "3", "4", "5", "6", "7", "8", "9">>
months == <<"F", "G", "H", "J", "K", "M", "N", "Q", "U", "V", "X", "Z">>

\* s.index(ch), from 1; 0 when ch is not in s.
Index(s, ch) ==
    IF \E i \in DOMAIN s : s[i] = ch
    THEN CHOOSE i \in DOMAIN s : s[i] = ch /\ \A j \in 1..(i - 1) : s[j] # ch
    ELSE 0

\* str.upper()
upper(s) ==
    [i \in DOMAIN s |->
        IF Index(LOWER, s[i]) # 0 THEN UPPER[Index(LOWER, s[i])] ELSE s[i]]

\* `sub in s`
In(sub, s) ==
    \E i \in 0..(Len(s) - Len(sub)) : SubSeq(s, i + 1, i + Len(sub)) = sub

\* s.count(ch)
count(s, ch) == Cardinality({i \in DOMAIN s : s[i] = ch})

\* s.split(ch): the pieces between the occurrences of ch, one more than
\* there are occurrences.
RECURSIVE split(_, _)
split(s, ch) ==
    IF Index(s, ch) = 0
    THEN <<s>>
    ELSE <<SubSeq(s, 1, Index(s, ch) - 1)>>
            \o split(SubSeq(s, Index(s, ch) + 1, Len(s)), ch)

\* s.replace(old, new), left to right.
RECURSIVE replace(_, _, _)
replace(s, old, new) ==
    IF Len(s) < Len(old) THEN s
    ELSE IF SubSeq(s, 1, Len(old)) = old
         THEN new \o replace(SubSeq(s, Len(old) + 1, Len(s)), old, new)
         ELSE <<s[1]>> \o replace(SubSeq(s, 2, Len(s)), old, new)

\* int(s) of a string of decimal digits.
RECURSIVE int(_)
int(s) ==
    IF s = <<>> THEN 0
    ELSE 10 * int(SubSeq(s, 1, Len(s) - 1)) + (Index(DIGITS, s[Len(s)]) - 1)

IsDigits(s) == s # <<>> /\ \A i \in DOMAIN s : Index(DIGITS, s[i]) # 0

\* strftime("%Y%m") of a date in the year and month.
strftime_Ym(year, month) ==
    <<DIGITS[(year \div 1000) + 1], DIGITS[((year % 1000) \div 100) + 1],
      DIGITS[((year % 100) \div 10) + 1], DIGITS[(year % 10) + 1],
      DIGITS[(month \div 10) + 1], DIGITS[(month % 10) + 1]>>

\* strftime("%y%m") of a date in the year and month.
strftime_ym(year, month) ==
    <<DIGITS[((year % 100) \div 10) + 1], DIGITS[(year % 10) + 1],
      DIGITS[(month \div 10) + 1], DIGITS[(month % 10) + 1]>>

\* parse_futures_ticker(local_symbol) without decade: the symbol and the year
\* and month of the expiration, or a failure when the last character is no
\* digit or the one before it no month code.
parse_futures_ticker(local_symbol) ==
    LET n == Len(local_symbol)
    IN IF n < 2 \/ Index(DIGITS, local_symbol[n]) = 0
            \/ Index(months, local_symbol[n - 1]) = 0
       THEN [ok |-> FALSE]
       ELSE LET year == Index(DIGITS, local_symbol[n]) - 1
            IN [ok |-> TRUE,
                symbol |-> SubSeq(local_symbol, 1, n - 2),
                year |-> IF year <= 6 THEN year + 2020 ELSE year + 2010,
                month |-> Index(months, local_symbol[n - 1])]

\* The days of the month of the year.
DaysIn(year, month) ==
    IF month = 2
    THEN IF year % 4 = 0 /\ (year % 100 # 0 \/ year % 400 = 0) THEN 29 ELSE 28
    ELSE IF month \in {4, 6, 9, 11} THEN 30 ELSE 31

\* The expiry part of a future's symbolic id (l.277-294): from the local
\* symbol when it parses, else from the expiry date string. strptime raises
\* ValueError for a string that is no date.
exp_str_for(con) ==
    LET t == parse_futures_ticker(con.localSymbol)
        e == con.lastTradeDateOrContractMonth
        year == int(SubSeq(e, 1, 4))
        month == int(SubSeq(e, 5, 6))
        day == int(SubSeq(e, 7, 8))
    IN IF t.ok THEN [ok |-> TRUE, str |-> strftime_ym(t.year, t.month)]
       ELSE IF Len(e) = 8
       THEN IF IsDigits(e) /\ year >= 1 /\ month \in 1..12
                /\ day \in 1..DaysIn(year, month)
            THEN [ok |-> TRUE,
                  str |-> IF day > 22
                          THEN IF month = 12 THEN strftime_ym(year + 1, 1)
                               ELSE strftime_ym(year, month + 1)
                          ELSE strftime_ym(year, month)]
            ELSE [ok |-> FALSE]
       ELSE IF Len(e) = 6
       THEN IF IsDigits(e) /\ year >= 1 /\ month \in 1..12
            THEN [ok |-> TRUE, str |-> strftime_ym(year, month)]
            ELSE [ok |-> FALSE]
       ELSE [ok |-> TRUE,
             str |-> SubSeq(e, IF Len(e) > 4 THEN Len(e) - 3 ELSE 1, Len(e))]

\* IBSync.sid_for_contract: the symbolic id, or ValueError out of strptime.
sid_for_contract(con) ==
    LET exchange ==
            replace(IF con.primaryExchange # <<>>
                    THEN con.primaryExchange ELSE con.exchange,
                    <<"I", "S", "L", "A", "N", "D">>,
                    <<"N", "A", "S", "D", "A", "Q">>)
        symbol == con.symbol
        exp == exp_str_for(con)
    IN IF con.secType = "FUT"
       THEN IF exp.ok
            THEN [kind |-> "sid",
                  sid |-> upper(exchange \o <<"_">> \o symbol \o <<"_">> \o exp.str)]
            ELSE [kind |-> "ValueError"]
       ELSE IF con.secType = "CASH"
       THEN [kind |-> "sid",
             sid |-> upper(exchange \o <<"_">> \o con.localSymbol)]
       ELSE [kind |-> "sid", sid |-> upper(exchange \o <<"_">> \o symbol)]

\* Contract() as the codec holds it, every string a character sequence.
Contract_chars ==
    [Contract EXCEPT !.symbol = <<>>, !.exchange = <<>>,
                     !.primaryExchange = <<>>, !.currency = <<>>,
                     !.localSymbol = <<>>]

USD == <<"U", "S", "D">>

\* IBSync.contract_for_sid: the descriptor; Exception("Can't make a contract
\* from SID") when the symbol stays empty; ValueError when a split does not
\* give the two parts it is unpacked into.
contract_for_sid(sid0) ==
    LET sid == upper(sid0)
        parts == split(sid, "_")
        cur == split(parts[2], ".")
        made(c) == IF c.symbol # <<>>
                   THEN [kind |-> "contract", contract |-> c]
                   ELSE [kind |-> "Exception"]
    IN IF In(<<"I", "D", "E", "A", "L", "P", "R", "O", "_">>, sid) \/ In(<<".">>, sid)
       THEN IF Len(parts) # 2 \/ Len(cur) # 2
            THEN [kind |-> "ValueError"]
            ELSE made([Contract_chars EXCEPT
                        !.secType = "CASH", !.symbol = cur[1],
                        !.exchange = parts[1], !.primaryExchange = parts[1],
                        !.currency = cur[2]])
       ELSE IF In(<<"P", "A", "X", "O", "S", "_">>, sid)
       THEN IF Len(parts) # 2
            THEN [kind |-> "ValueError"]
            ELSE made([Contract_chars EXCEPT
                        !.secType = "CRYPTO", !.symbol = parts[2],
                        !.exchange = parts[1], !.primaryExchange = parts[1],
                        !.currency = USD])
       ELSE IF count(sid, "_") = 1
       THEN made([Contract_chars EXCEPT
                    !.secType = "STK", !.symbol = parts[2],
                    !.exchange = <<"S", "M", "A", "R", "T">>,
                    !.primaryExchange =
                        replace(parts[1], <<"N", "A", "S", "D", "A", "Q">>,
                                <<"I", "S", "L", "A", "N", "D">>),
                    !.currency = USD])
       ELSE IF count(sid, "_") = 2
       THEN made([Contract_chars EXCEPT
                    !.secType = "FUT", !.symbol = parts[2],
                    !.exchange = parts[1], !.primaryExchange = parts[1],
                    !.currency = USD,
                    !.lastTradeDateOrContractMonth = <<"2", "0">> \o parts[3]])
       ELSE made(Contract_chars)

\* One representative descriptor of each asset class of the codec.
STK_URA ==
    [Contract_chars EXCEPT
        !.secType = "STK",
        !.symbol = <<"U", "R", "A">>,
        !.exchange = <<"S", "M", "A", "R", "T">>,
        !.primaryExchange = <<"A", "R", "C", "A">>,
        !.currency = <<"U", "S", "D">>]

FUT_ZCH4 ==
    [Contract_chars EXCEPT
        !.secType = "FUT",
        !.symbol = <<"Z", "C">>,
        !.exchange = <<"C", "B", "O", "T">>,
        !.localSymbol = <<"Z", "C", "H", "4">>]

CASH_EURUSD ==
    [Contract_chars EXCEPT
        !.secType = "CASH",
        !.symbol = <<"E", "U", "R">>,
        !.exchange = <<"I", "D", "E", "A", "L", "P", "R", "O">>,
        !.currency = <<"U", "S", "D">>,
        !.localSymbol = <<"E", "U", "R", ".", "U", "S", "D">>]

CRYPTO_BTC ==
    [Contract_chars EXCEPT
        !.secType = "CRYPTO",
        !.symbol = <<"B", "T", "C">>,
        !.exchange = <<"P", "A", "X", "O", "S">>,
        !.currency = <<"U", "S", "D">>]

Representatives == {STK_URA, FUT_ZCH4, CASH_EURUSD, CRYPTO_BTC}

\* The descriptors given to sid_for_contract.
CodecDescriptors ==
    Representatives \cup
    {[Contract_chars EXCEPT
        !.secType = "STK",
        !.symbol = <<"A", "A", "P", "L">>,
        !.exchange = <<"S", "M", "A", "R", "T">>,
        !.primaryExchange = <<"I", "S", "L", "A", "N", "D">>,
        !.currency = <<"U", "S", "D">>],
     [Contract_chars EXCEPT
        !.secType = "STK",
        !.symbol = <<"u", "r", "a">>,
        !.exchange = <<"A", "R", "C", "A">>,
        !.currency = <<"U", "S", "D">>],
     [Contract_chars EXCEPT
        !.secType = "STK",
        !.symbol = <<"B", "R", "K", ".", "B">>,
        !.exchange = <<"S", "M", "A", "R", "T">>,
        !.primaryExchange = <<"N", "Y", "S", "E">>,
        !.currency = <<"U", "S", "D">>],
     [Contract_chars EXCEPT
        !.secType = "FUT",
        !.symbol = <<"Z", "C">>,
        !.exchange = <<"C", "B", "O", "T">>,
        !.lastTradeDateOrContractMonth = <<"2", "0", "2", "4", "0", "3", "1", "4">>],
     [Contract_chars EXCEPT
        !.secType = "FUT",
        !.symbol = <<"Z", "C">>,
        !.exchange = <<"C", "B", "O", "T">>,
        !.lastTradeDateOrContractMonth = <<"2", "0", "2", "4", "1", "2", "2", "7">>],
     [Contract_chars EXCEPT
        !.secType = "FUT",
        !.symbol = <<"Z", "C">>,
        !.exchange = <<"C", "B", "O", "T">>,
        !.lastTradeDateOrContractMonth = <<"2", "0", "2", "4", "0", "3">>],
     [Contract_chars EXCEPT
        !.secType = "FUT",
        !.symbol = <<"Z", "C">>,
        !.exchange = <<"C", "B", "O", "T">>,
        !.lastTradeDateOrContractMonth = <<"2", "0", "2", "4", "0", "2", "3", "0">>],
     [Contract_chars EXCEPT
        !.secType = "FUT",
        !.symbol = <<"Z", "C">>,
        !.exchange = <<"C", "B", "O", "T">>,
        !.localSymbol = <<"Z", "C", "H">>,
        !.lastTradeDateOrContractMonth = <<"2", "4", "0", "3">>],
     [Contract_chars EXCEPT
        !.secType = "CONTFUT",
        !.symbol = <<"Z", "C">>,
        !.exchange = <<"C", "B", "O", "T">>],
     [Contract_chars EXCEPT
        !.secType = "CASH",
        !.symbol = <<"E", "U", "R">>,
        !.exchange = <<"I", "D", "E", "A", "L", "P", "R", "O">>,
        !.currency = <<"U", "S", "D">>]}

\* The longest string made of the three characters of SidAlphabet.
MaxSidLen == 4
SidAlphabet == {"A", "_", "."}

\* The strings given to contract_for_sid: ids of every asset class, ids with
\* a marker and the wrong number of parts, and every string of up to
\* MaxSidLen characters of SidAlphabet.
SidInputs ==
    {<<"A", "R", "C", "A", "_", "U", "R", "A">>,
     <<"I", "D", "E", "A", "L", "P", "R", "O", "_", "E", "U", "R", ".", "U", "S", "D">>,
     <<"C", "B", "O", "T", "_", "Z", "C", "_", "2", "4", "0", "3">>,
     <<"P", "A", "X", "O", "S", "_", "B", "T", "C">>,
     <<"N", "A", "S", "D", "A", "Q", "_", "A", "A", "P", "L">>,
     <<"a", "r", "c", "a", "_", "u", "r", "a">>,
     <<"I", "D", "E", "A", "L", "P", "R", "O", "_", "E", "U", "R">>,
     <<"I", "D", "E", "A", "L", "P", "R", "O", "_", ".", "U", "S", "D">>,
     <<"E", "U", "R", ".", "U", "S", "D">>,
     <<"P", "A", "X", "O", "S", "_", "B", "T", "C", "_", "X">>,
     <<"N", "Y", "S", "E", "_", "B", "R", "K", ".", "B">>,
     <<"I", "D", "E", "A", "L", "P", "R", "O", "_", "A", ".", "B", ".", "C">>,
     <<"P", "A", "X", "O", "S", "_">>}
    \cup UNION {[1..n -> SidAlphabet] : n \in 0..MaxSidLen}

\* Caller 1 holds a descriptor to encode, caller 2 a string to decode.
SInit ==
    /\ requests = <<>>
    /\ requests_by_id = <<>>
    /\ pc = [c \in Callers |-> "idle"]
    /\ op = [c \in Callers |-> ""]
    /\ hs = [c \in Callers |-> <<>>]
    /\ ncalls = [c \in Callers |-> 0]
    /\ elapsed = [c \in Callers |-> 0]
    /\ \E sid \in SidInputs : result = <<<<>>, <<sid>>>>
    /\ exc = [c \in Callers |-> <<>>]
    /\ nitems = 0
    /\ nextValidOrderId = 0 - 1
    /\ cds = <<>>
    /\ cached_details = <<>>
    /\ \E con \in CodecDescriptors : contract = <<con, Contract_chars>>
    /\ keep = [c \in Callers |-> FALSE]
    /\ sent = 0
    /\ msg_queue = <<>>
    /\ dispatched = <<>>
    /\ taken = [t \in Threads |-> <<>>]
    /\ ghost = <<>>

\* sid = self.sid_for_contract(contract) of the descriptor caller c holds.
sid_for_contract_call(c) ==
    LET r == sid_for_contract(contract[c])
    IN /\ pc[c] = "idle" /\ result[c] = <<>>
       /\ op' = [op EXCEPT ![c] = "sid_for_contract"]
       /\ IF r.kind = "sid"
          THEN /\ pc' = [pc EXCEPT ![c] = "done"]
               /\ result' = [result EXCEPT ![c] = <<r.sid>>]
               /\ UNCHANGED exc
          ELSE /\ pc' = [pc EXCEPT ![c] = "error"]
               /\ exc' = [exc EXCEPT ![c] = <<r.kind>>]
               /\ UNCHANGED result
       /\ UNCHANGED <<hs, ncalls, elapsed, registryVars, cacheVars, descrVars,
                      nitems, nextValidOrderId, sent, ghost, queueVars>>

\* self.contract_for_sid(sid) of the string caller c holds, given or just
\* encoded; the descriptor is put beside the string.
contract_for_sid_call(c) ==
    LET r == contract_for_sid(result[c][1])
    IN /\ pc[c] \in {"idle", "done"} /\ Len(result[c]) = 1
       /\ op' = [op EXCEPT ![c] = "contract_for_sid"]
       /\ IF r.kind = "contract"
          THEN /\ pc' = [pc EXCEPT ![c] = "done"]
               /\ result' = [result EXCEPT ![c] = <<result[c][1], r.contract>>]
               /\ UNCHANGED exc
          ELSE /\ pc' = [pc EXCEPT ![c] = "error"]
               /\ exc' = [exc EXCEPT ![c] =
                            IF r.kind = "Exception"
                            THEN <<"Can't make a contract from SID",
                                   upper(result[c][1])>>
                            ELSE <<r.kind>>]
               /\ UNCHANGED result
       /\ UNCHANGED <<hs, ncalls, elapsed, registryVars, cacheVars, descrVars,
                      nitems, nextValidOrderId, sent, ghost, queueVars>>

\* self.sid_for_contract(contract) of the descriptor that contract_for_sid
\* has just returned to caller c; the string is put beside the two.
sid_for_contract_back(c) ==
    LET r == sid_for_contract(result[c][2])
    IN /\ pc[c] = "done" /\ op[c] = "contract_for_sid"
       /\ op' = [op EXCEPT ![c] = "sid_for_contract"]
       /\ IF r.kind = "sid"
          THEN /\ result' = [result EXCEPT ![c] = Append(@, r.sid)]
               /\ UNCHANGED <<pc, exc>>
          ELSE /\ pc' = [pc EXCEPT ![c] = "error"]
               /\ exc' = [exc EXCEPT ![c] = <<r.kind>>]
               /\ UNCHANGED result
       /\ UNCHANGED <<hs, ncalls, elapsed, registryVars, cacheVars, descrVars,
                      nitems, nextValidOrderId, sent, ghost, queueVars>>

SNext ==
    \E c \in Callers :
        \/ sid_for_contract_call(c)
        \/ contract_for_sid_call(c)
        \/ sid_for_contract_back(c)

SSpec == SInit /\ [][SNext]_vars

\* ------------------------------------------------------------ registry
\* The Results object on its own: facade heads registering requests one
\* after another, and the delivery thread's callbacks with ids the registry
\* holds and ids it does not hold.
MaxRequests == 3
MaxDeliveries == 1
RTypes == {"open_orders", "historical_data"}

\* The keys of Results.requests_by_id.
Keys == {requests_by_id[i][1] : i \in DOMAIN requests_by_id}

\* self.results.request(type, id) at the head of a facade operation, the
\* random id drawn already.
request(type, id) ==
    /\ LET r == Results_request(requests, requests_by_id, type, id)
       IN /\ requests' = r.requests
          /\ requests_by_id' = r.by_id
    /\ ghost' = GhostRequest(requests, requests_by_id, ghost, type, id)
    /\ sent' = sent + 1 /\ UNCHANGED queueVars
    /\ UNCHANGED <<callerVars, nitems, nextValidOrderId, cacheVars, descrVars>>

\* The ids a callback can carry: those the gateway was given for the type,
\* 0 and -1 for what no request asked for, and any id no longer registered.
CallbackIds(types) == SentIds(types) \cup ((({0 - 1, 0}) \cup Ids) \ Keys)

RNext ==
    \/ \E type \in RTypes, id \in Ids :
            Len(requests) < MaxRequests /\ request(type, id)
    \/ \E reqId \in CallbackIds({"historical_data"}) :
        \/ nitems < MaxDeliveries /\ historicalData(reqId)
        \/ historicalDataEnd(reqId)
    \/ \E orderId \in CallbackIds({}) :
            nitems < MaxDeliveries /\ openOrder(orderId)
    \/ openOrderEnd
    \/ \E reqId \in CallbackIds(RTypes), code \in INFO_CODES \cup Codes :
            error(reqId, code, OtherMsg)

RSpec == Init /\ [][RNext]_vars

\* The registry over a long time: requests of one type under a new id or
\* under id 1 again, and now and then more than ten minutes without one.
MaxEntries == 12

\* datetime.utcnow() moves on by more than ten minutes: every Request there
\* is has `started_at < old` from now on.
ten_minutes_pass ==
    /\ \E h \in DOMAIN requests : ~requests[h].old
    /\ requests' = [h \in DOMAIN requests |-> [requests[h] EXCEPT !.old = TRUE]]
    /\ UNCHANGED <<requests_by_id, callerVars, nitems, nextValidOrderId,
                   cacheVars, descrVars, sent, ghost, queueVars>>

ENext ==
    \/ \E id \in {Len(requests) + 1, 1} :
            Len(requests) < MaxEntries /\ request("positions", id)
    \/ ten_minutes_pass

ESpec == Init /\ [][ENext]_vars

\* ------------------------------------------------------------ inbound queue
\* get_contract_details takes messages from IBClient.msg_queue in the
\* caller's thread.  A message is a contract-details message (id 10) or a
\* details-end message (id 52) for a request id, or any other message; the
\* other messages carry the number n in which the gateway sent them.
MaxOther == 2
MaxQueue == 3

Msg(kind, id, n) == [kind |-> kind, id |-> id, n |-> n]

InQueue(kind) == {i \in DOMAIN msg_queue : msg_queue[i].kind = kind}

\* The threads that hold a message of the kind, taken and not yet handled.
InHand(kind) == {t \in Threads : taken[t] # <<>> /\ taken[t][1].kind = kind}

\* The other messages the gateway has sent so far.
OtherSent ==
    Len(dispatched) + Cardinality(InQueue("other")) + Cardinality(InHand("other"))

\* The reader thread puts a message of the gateway at the tail: for a details
\* request its records and then the end, and unrelated traffic at any time.
enqueue(m) ==
    /\ Len(msg_queue) < MaxQueue
    /\ msg_queue' = Append(msg_queue, m)
    /\ UNCHANGED <<registryVars, callerVars, nitems, nextValidOrderId,
                   cacheVars, descrVars, sent, ghost, dispatched, taken>>

\* The end of the answer to reqId was sent already.
EndSent(reqId) ==
    \/ \E i \in InQueue("end") : msg_queue[i].id = reqId
    \/ \E t \in InHand("end") : taken[t][1].id = reqId
    \/ \E h \in DOMAIN requests : requests[h].id = reqId /\ requests[h].finished

gateway ==
    \/ OtherSent < MaxOther /\ enqueue(Msg("other", 0, OtherSent + 1))
    \/ \E reqId \in SentIds({"contract_details"}) :
        /\ ~EndSent(reqId)
        /\ \/ /\ nitems + Cardinality(InQueue("details"))
                    + Cardinality(InHand("details")) < MaxItems
              /\ enqueue(Msg("details", reqId, 0))
           \/ enqueue(Msg("end", reqId, 0))

\* self.decoder.interpret(f) of a details or end message: the callback
\* contractDetails(reqId, ZCH4) or contractDetailsEnd(reqId).
interpret(m) ==
    IF m.kind = "details"
    THEN /\ nitems' = nitems + 1
         /\ cds' = cds @@ (Item :> ZCH4)
         /\ LET h == Contract_hash(ZCH4)
            IN cached_details' =
                 IF h \notin DOMAIN cached_details
                 THEN cached_details @@ (h :> <<Item>>)
                 ELSE cached_details
         /\ requests' = GuardedAppend(m.id, Item)
    ELSE /\ requests' = FinishById(m.id)
         /\ UNCHANGED <<nitems, cacheVars>>

\* The operations whose poll loop takes messages from the queue.
Pumps(c) == pc[c] = "wait" /\ op[c] = "get_contract_details"

\* A loop that takes a message only when it is a details or end message and
\* waits as long as another message is at the head.
pump_blocking(c) ==
    /\ pc[c] = "wait" /\ op[c] = "get_contract_details"
    /\ ~requests[hs[c][1]].finished
    /\ ~Expired(c)
    /\ msg_queue # <<>>
    /\ Head(msg_queue).kind \in {"details", "end"}
    /\ interpret(Head(msg_queue))
    /\ msg_queue' = Tail(msg_queue)
    /\ UNCHANGED <<requests_by_id, callerVars, nextValidOrderId, descrVars,
                   sent, ghost, dispatched, taken>>

\* One turn of the loop of get_contract_details with a message at hand:
\* msg_queue.get, then interpret for a details or end message, and
\* msg_queue.put of any other message.
pump(c) ==
    /\ Pumps(c)
    /\ ~requests[hs[c][1]].finished
    /\ ~Expired(c)
    /\ msg_queue # <<>>
    /\ LET m == Head(msg_queue)
       IN IF m.kind \in {"details", "end"}
          THEN /\ interpret(m)
               /\ msg_queue' = Tail(msg_queue)
          ELSE /\ msg_queue' = Append(Tail(msg_queue), m)
               /\ UNCHANGED <<requests, nitems, cacheVars>>
    /\ UNCHANGED <<requests_by_id, callerVars, nextValidOrderId, descrVars,
                   sent, ghost, dispatched, taken>>

\* The dispatcher (EClient.run) takes the message at the head and interprets
\* it; of the other messages the order of their handling is kept.
dispatch ==
    /\ msg_queue # <<>>
    /\ msg_queue' = Tail(msg_queue)
    /\ LET m == Head(msg_queue)
       IN IF m.kind \in {"details", "end"}
          THEN /\ interpret(m)
               /\ UNCHANGED dispatched
          ELSE /\ dispatched' = Append(dispatched, m.n)
               /\ UNCHANGED <<requests, nitems, cacheVars>>
    /\ UNCHANGED <<requests_by_id, callerVars, nextValidOrderId, descrVars,
                   sent, ghost, taken>>

\* A caller thread in get_contract_details beside the dispatcher thread.
PNext ==
    \/ \E rid \in Ids : get_contract_details(1, [Contract EXCEPT !.conId = 1], rid)
    \/ pump(1)
    \/ Request_wait(1)
    \/ Timer_raise(1)
    \/ get_contract_details_return(1)
    \/ gateway
    \/ dispatch
    \/ Tick

PSpec == Init /\ [][PNext]_vars

\* The loop of caller c has something to do for its request: a details or
\* end message is in the queue, or the request is finished and the loop is
\* about to be left.  A turn of the loop takes a millisecond (Timer.wait),
\* so the clock, which counts the seconds of TIMEOUT, stands meanwhile.
Busy(c) ==
    /\ Pumps(c)
    /\ \/ requests[hs[c][1]].finished
       \/ InQueue("details") \cup InQueue("end") # {}

\* get_contract_details called on the dispatcher thread itself (orderStatus,
\* qualify_contract, a cache miss): nothing else takes messages from the
\* queue until the call is over.
PSelfNext ==
    \/ \E rid \in Ids : get_contract_details(1, [Contract EXCEPT !.conId = 1], rid)
    \/ pump(1)
    \/ Request_wait(1)
    \/ Timer_raise(1)
    \/ get_contract_details_return(1)
    \/ gateway
    \/ pc[1] \notin {"wait", "post"} /\ dispatch
    \/ ~Busy(1) /\ Tick

\* The thread is scheduled: its loop turns, leaves and returns.
PSelfSpec ==
    /\ Init /\ [][PSelfNext]_vars
    /\ WF_vars(pump(1))
    /\ WF_vars(Request_wait(1))
    /\ WF_vars(get_contract_details_return(1))

\* ------------------------------------------------------------ two readers
\* The loop of get_contract_details and the loop of EClient.run step by
\* step: msg_queue.get is one step of a thread, what it does with the
\* message the next, and the other thread may run in between.
get(t) ==
    /\ taken[t] = <<>>
    /\ msg_queue # <<>>
    /\ t = "caller" => Pumps(1) /\ ~requests[hs[1][1]].finished /\ ~Expired(1)
    /\ taken' = [taken EXCEPT ![t] = <<Head(msg_queue)>>]
    /\ msg_queue' = Tail(msg_queue)
    /\ UNCHANGED <<registryVars, callerVars, nitems, nextValidOrderId,
                   cacheVars, descrVars, sent, ghost, dispatched>>

\* The caller's loop with a message in hand: interpret for a details or end
\* message, msg_queue.put for any other.
caller_handle ==
    /\ taken["caller"] # <<>>
    /\ taken' = [taken EXCEPT !["caller"] = <<>>]
    /\ LET m == taken["caller"][1]
       IN IF m.kind \in {"details", "end"}
          THEN /\ interpret(m)
               /\ UNCHANGED msg_queue
          ELSE /\ msg_queue' = Append(msg_queue, m)
               /\ UNCHANGED <<requests, nitems, cacheVars>>
    /\ UNCHANGED <<requests_by_id, callerVars, nextValidOrderId, descrVars,
                   sent, ghost, dispatched>>

\* EClient.run with a message in hand: decoder.interpret of it.
run_handle ==
    /\ taken["run"] # <<>>
    /\ taken' = [taken EXCEPT !["run"] = <<>>]
    /\ LET m == taken["run"][1]
       IN IF m.kind \in {"details", "end"}
          THEN /\ interpret(m)
               /\ UNCHANGED dispatched
          ELSE /\ dispatched' = Append(dispatched, m.n)
               /\ UNCHANGED <<requests, nitems, cacheVars>>
    /\ UNCHANGED <<requests_by_id, callerVars, nextValidOrderId, descrVars,
                   sent, ghost, msg_queue>>

\* A caller thread in get_contract_details beside the thread of EClient.run;
\* the caller's loop reads `request.finished` and the Timer between two
\* messages, with none in hand.
TNext ==
    \/ \E rid \in Ids : get_contract_details(1, [Contract EXCEPT !.conId = 1], rid)
    \/ \E t \in Threads : get(t)
    \/ caller_handle
    \/ run_handle
    \/ taken["caller"] = <<>> /\ Request_wait(1)
    \/ taken["caller"] = <<>> /\ Timer_raise(1)
    \/ get_contract_details_return(1)
    \/ gateway
    \/ Tick

TSpec == Init /\ [][TNext]_vars

\* ------------------------------------------------------------ order ids
\* The tail of get_next_order_id statement by statement, as another thread
\* may run between the two: `self.nextValidOrderId += 1`, and then
\* `return self.nextValidOrderId - 1`.
get_next_order_id_increment(c) ==
    /\ AtReturn(c, "get_next_order_id")
    /\ nextValidOrderId' = nextValidOrderId + 1
    /\ pc' = [pc EXCEPT ![c] = "incremented"]
    /\ UNCHANGED <<registryVars, op, hs, ncalls, elapsed, result, exc, nitems,
                   cacheVars, descrVars, sent, ghost, queueVars>>

get_next_order_id_result(c) ==
    /\ pc[c] = "incremented"
    /\ Return(c, <<nextValidOrderId - 1>>)
    /\ UNCHANGED <<registryVars, op, hs, ncalls, elapsed, nitems,
                   nextValidOrderId, cacheVars, descrVars, sent, ghost, queueVars>>

\* Two calls of get_next_order_id on one connection, one after the other or
\* at the same time.  No order is placed meanwhile, so the next valid id of
\* the gateway stays what it is, 1, and that is what nextValidId reports.
NNext ==
    \/ \E c \in Callers :
        \/ \E rid \in Ids : get_next_order_id(c, rid)
        \/ Request_wait(c)
        \/ Timer_raise(c)
        \/ get_next_order_id_increment(c)
        \/ get_next_order_id_result(c)
    \/ nextValidId(1)
    \/ Tick

NSpec == Init /\ [][NNext]_vars

\* ------------------------------------------------------------ late answers
\* The gateway answers one reqPositions after the other, each with the
\* positions of the accounts and then the end of the list.  Only positions
\* requests are made here, so the k-th request is entry k of the heap;
\* dispatched holds the numbers k whose positionEnd has been handled.
Answering == Len(dispatched) + 1

\* positionEnd() as the end of the answer to the request the gateway is
\* answering.
positionEnd_answer ==
    /\ Answering <= sent
    /\ requests' = Results_finish(requests, requests_by_id, "positions")
    /\ ghost' = GhostEnd(ghost, {"positions"})
    /\ dispatched' = Append(dispatched, Answering)
    /\ UNCHANGED <<requests_by_id, callerVars, nitems, nextValidOrderId,
                   cacheVars, descrVars, sent, msg_queue, taken>>

\* A call of get_positions that may time out, and a second call made once
\* the first has timed out.
LNext ==
    \/ \E rid \in Ids : get_positions(1, rid)
    \/ \E rid \in Ids : pc[1] = "timeout" /\ get_positions(2, rid)
    \/ \E c \in Callers :
        \/ Timer_raise(c)
        \/ Request_wait(c)
        \/ get_positions_return(c)
    \/ \E account \in Accounts : Answering <= sent /\ position(account)
    \/ positionEnd_answer
    \/ Tick

LSpec == Init /\ [][LNext]_vars

\* ------------------------------------------------------------ orders
\* One caller thread placing an order, another listing the orders, and the
\* delivery thread: the gateway reports an order under the id it was placed
\* with, or under 0 when this client did not place it.
ONext ==
    \/ \E orderId \in Ids, rid \in Ids : place_order(1, orderId, rid)
    \/ place_order_return(1)
    \/ \E rid \in Ids : get_orders(2, rid) \/ get_orders_completed(2, rid)
    \/ get_orders_return(2)
    \/ \E c \in Callers : Timer_raise(c) \/ Request_wait(c)
    \/ \E orderId \in {0} \cup SentIds({"place_order"}) : openOrder(orderId)
    \/ openOrderEnd
    \/ completedOrder
    \/ completedOrdersEnd
    \/ Tick

OSpec == Init /\ [][ONext]_vars

\* ------------------------------------------------------------ claims
\* Entry h is the one Results.get finds under its id.
Registered(h) == Handle(requests_by_id, requests[h].id) = h

\* The operations whose poll loop is `while not request.finished`.
WaitsForFinish ==
    {"get_contract_details", "get_historical_data", "get_executions",
     "get_head_timestamp"}

\* C1: once a registered entry is finished, no callback changes its buffer.
\* openOrder appends to the entry registered under its orderId without
\* looking at the finished flag, so the property fails.
C1_FinishedBufferFrozen ==
    [][\A h \in DOMAIN requests :
          Registered(h) /\ requests[h].finished
              => requests'[h].items = requests[h].items]_vars

\* C4: an error callback with a non-informational code for a registered id
\* leaves the entry under that id finished, with that code and message, and
\* leaves the registry's keys alone; finishing a finished entry changes
\* nothing of it.
C4_ErrorFinishes ==
    [][/\ \A reqId \in Ids, code \in Codes \ INFO_CODES, msg \in Msgs :
            Results_get(reqId) # 0 /\ error(reqId, code, msg)
                => LET r == requests'[Results_get(reqId)]
                   IN /\ r.finished /\ r.code = code /\ r.error = msg
                      /\ r.items = requests[Results_get(reqId)].items
                      /\ requests_by_id' = requests_by_id
       /\ \A h \in DOMAIN requests' :
            /\ Request_finish(Request_finish(requests'[h]))
                    = Request_finish(requests'[h])
            /\ requests'[h].finished => Request_finish(requests'[h]) = requests'[h]
      ]_vars

\* An error callback has finished a registered entry that held an item.
C4_Witness ==
    \E h \in DOMAIN requests :
        /\ Registered(h)
        /\ requests[h].finished
        /\ requests[h].code = 162
        /\ requests[h].error = OtherMsg
        /\ requests[h].items # <<>>

\* C5: an operation that carries a correlation id and waits for the
\* finished flag never returns normally when an error callback finished its
\* entry, except get_historical_data on the no-data message.
\* get_contract_details and get_executions return list(request) without
\* reading request.error, so the property fails.
C5_ErrorPropagates ==
    \A c \in Callers :
        pc[c] = "done" /\ op[c] \in WaitsForFinish
            => LET g == ghost[hs[c][1]]
               IN g.byError
                    => op[c] = "get_historical_data" /\ NoData(g.message)

\* C6: at its return, get_historical_data returns the empty list when the
\* entry's message is the no-data message, whatever the buffer holds; raises
\* with the message when it is any other (non-empty) message; and returns
\* the buffer, in arrival order, when there is none.
C6_HistoricalDataOutcome ==
    [][\A c \in Callers :
          AtReturn(c, "get_historical_data") /\ pc'[c] # pc[c]
              => LET r == requests[hs[c][1]]
                 IN /\ NoData(r.error) => pc'[c] = "done" /\ result'[c] = <<>>
                    /\ r.error # <<>> /\ ~NoData(r.error)
                            => pc'[c] = "error" /\ exc'[c] = r.error
                    /\ r.error = <<>>
                            => /\ pc'[c] = "done"
                               /\ result'[c] = r.items
                               /\ \A i, j \in DOMAIN r.items :
                                    i < j => r.items[i] < r.items[j]
      ]_vars

\* get_historical_data returned the empty list over a buffered bar.
C6_Witness ==
    \E c \in Callers :
        /\ pc[c] = "done" /\ op[c] = "get_historical_data"
        /\ result[c] = <<>>
        /\ requests[hs[c][1]].items # <<>>
        /\ ghost[hs[c][1]].byError /\ NoData(ghost[hs[c][1]].message)

\* C7 as claimed: no operation returns a result while an entry of its own is
\* unfinished.  place_order leaves its loop on the first item, so the
\* property fails.
C7_ReturnsOnlyFinished ==
    \A c \in Callers :
        pc[c] = "done" /\ op[c] # "qualify_contract"
            => \A i \in DOMAIN hs[c] : requests[hs[c][i]].finished

\* C7 amended: every operation other than place_order returns a result only
\* when its entries are finished; place_order returns one only when its
\* entry is finished or holds an item.
C7_ReturnsFinishedOrFirstOrder ==
    \A c \in Callers :
        pc[c] = "done" /\ op[c] # "qualify_contract"
            => \A i \in DOMAIN hs[c] :
                  \/ requests[hs[c][i]].finished
                  \/ /\ op[c] = "place_order"
                     /\ requests[hs[c][i]].items # <<>>

\* place_order returned the order of an entry that is not finished.
C7_Witness ==
    \E c \in Callers :
        /\ pc[c] = "done" /\ op[c] = "place_order"
        /\ ~requests[hs[c][1]].finished
        /\ result[c] = <<requests[hs[c][1]].items[1]>>

\* C8: once a waiter has timed out, no callback changes the buffers of its
\* entries.  The entry stays registered and unfinished, so historicalData
\* and position still append to it, and the property fails.
C8_TimedOutBufferFrozen ==
    [][\A c \in Callers :
          pc[c] = "timeout"
              => \A i \in DOMAIN hs[c] :
                    requests'[hs[c][i]].items = requests[hs[c][i]].items]_vars

\* C2: a get_positions call whose entry was the only open positions entry
\* while it was open returns exactly the position items delivered for the
\* account between its registration and positionEnd, in delivery order.
C2_PositionsComplete ==
    \A c \in Callers :
        /\ pc[c] = "done"
        /\ op[c] = "get_positions"
        /\ ghost[hs[c][1]].solo
        => /\ ghost[hs[c][1]].closed
           /\ result[c] = ghost[hs[c][1]].due

\* get_positions returned the two items delivered before positionEnd, and a
\* third callback has been delivered that is not part of the result.
C2_Witness ==
    \E c \in Callers :
        /\ pc[c] = "done" /\ op[c] = "get_positions"
        /\ ghost[hs[c][1]].solo
        /\ result[c] = <<1, 2>>
        /\ nitems = 3

\* C3: a waiter does not poll forever, and one whose loop condition does not
\* hold leaves its loop only by the TimeoutError, raised after more than
\* TIMEOUT seconds.
C3_WaiterTimesOut ==
    /\ \A c \in Callers : (pc[c] = "wait") ~> (pc[c] # "wait")
    /\ [][\A c \in Callers :
            pc[c] = "wait" /\ pc'[c] # "wait" /\ ~Ready(c)
                => pc'[c] = "timeout" /\ elapsed[c] > TIMEOUT]_vars

\* A waiter has timed out on an entry that was never finished.
C3_Witness ==
    \E c \in Callers :
        /\ pc[c] = "timeout"
        /\ \A i \in DOMAIN hs[c] : ~requests[hs[c][i]].finished

\* C9: a get_positions call whose entry is registered returns the position
\* items delivered for the account between its registration and the next
\* positionEnd, whether or not another positions entry is open.
\* position appends to the newest open entry only and positionEnd finishes
\* every positions entry, so the older of two open calls returns a list
\* without the items, and the property fails.
C9_ConcurrentPositionsComplete ==
    \A c \in Callers :
        /\ pc[c] = "done"
        /\ op[c] = "get_positions"
        /\ Registered(hs[c][1])
        => result[c] = ghost[hs[c][1]].due

\* C10: qualify_contract on a descriptor that carries details sends nothing,
\* registers nothing, changes neither the cache, nor the cached records, nor
\* the descriptor, and returns the descriptor.
C10_ResolvedIsNoOp ==
    [][\A c \in Callers, keep_exchange \in BOOLEAN, rid \in Ids :
          contract[c].details # 0 /\ qualify_contract(c, keep_exchange, rid)
              => /\ sent' = sent
                 /\ UNCHANGED <<requests, requests_by_id, cached_details, cds,
                                contract, ncalls, hs>>
                 /\ pc'[c] = "done"
                 /\ result'[c] = <<contract[c]>>
      ]_vars

\* A descriptor resolved to the gateway's exchange without keep_exchange has
\* been qualified again with keep_exchange, and still has that exchange.
C10_Witness ==
    \E c \in Callers :
        /\ pc[c] = "done" /\ op[c] = "qualify_contract"
        /\ contract[c].details # 0
        /\ keep[c]
        /\ contract[c].exchange = "CBOT"
        /\ result[c] = <<contract[c]>>

\* C11: a qualify_contract whose lookup yields two or more candidates raises
\* the ambiguous-contract error with the candidates' conIds, and leaves the
\* descriptor as it was, details attribute included.
C11_AmbiguousFails ==
    [][\A c \in Callers :
        /\ qualify_contract_return(c) /\ Len(requests[hs[c][1]].items) > 1
            => /\ pc'[c] = "qualify_error"
               /\ exc'[c] = <<"Ambiguous contract",
                              Variants(requests[hs[c][1]].items)>>
               /\ contract'[c] = contract[c]
               /\ contract'[c].details = 0
        /\ \A keep_exchange \in BOOLEAN, rid \in Ids :
            LET h == Contract_hash(LookupKey(contract[c]))
            IN /\ qualify_contract(c, keep_exchange, rid)
               /\ contract[c].details = 0
               /\ h \in DOMAIN cached_details
               /\ Len(cached_details[h]) > 1
               => /\ pc'[c] = "qualify_error"
                  /\ exc'[c] = <<"Ambiguous contract",
                                 Variants(cached_details[h])>>
                  /\ contract'[c] = contract[c]
      ]_vars

\* A lookup by fields returned the stock's record twice, and the
\* qualification failed naming both, the descriptor untouched.
C11_Witness ==
    \E c \in Callers :
        /\ pc[c] = "qualify_error" /\ op[c] = "qualify_contract"
        /\ exc[c] = <<"Ambiguous contract", <<2, 2>>>>
        /\ contract[c] =
              [Contract EXCEPT !.secType = "STK", !.symbol = "URA",
                               !.exchange = "SMART",
                               !.primaryExchange = "NASDAQ", !.currency = "USD"]

\* What a descriptor holds after it was resolved to the record numbered n,
\* field by field: the record's value, but the first part of its expiry, and
\* the descriptor's own exchange under keep_exchange.
ResolvedTo(before, after, n, keep_exchange) ==
    /\ after.details = n
    /\ \A f \in ContractFields \ {"lastTradeDateOrContractMonth", "exchange"} :
            after[f] = cds[n][f]
    /\ after.lastTradeDateOrContractMonth =
            IF cds[n].lastTradeDateOrContractMonth = <<>> THEN <<>>
            ELSE <<cds[n].lastTradeDateOrContractMonth[1]>>
    /\ after.exchange =
            IF keep_exchange THEN before.exchange ELSE cds[n].exchange

Answers(con, rec) ==
    /\ con.conId # 0 \/ con.symbol # ""
    /\ con.conId # 0 => rec.conId = con.conId
    /\ con.secType # "" => rec.secType = con.secType
    /\ con.symbol # "" => rec.symbol = con.symbol

\* C13: when a qualify_contract of a descriptor without numeric id missed the
\* cache and its details request returned records of the instrument, the
\* cache has an entry under the hash of the descriptor that was looked up.
\* _get_cached_details returns the list without storing it, and
\* contractDetails stores each record under the hash of the record's own
\* contract, which for a descriptor without numeric id is another hash; so
\* the property fails.
C13_MissIsCached ==
    [][\A c \in Callers :
        /\ qualify_contract_return(c)
        /\ contract[c].conId = 0
        /\ requests[hs[c][1]].items # <<>>
        /\ \A i \in DOMAIN requests[hs[c][1]].items :
                Answers(LookupKey(contract[c]), cds[requests[hs[c][1]].items[i]])
        => Contract_hash(LookupKey(contract[c])) \in DOMAIN cached_details'
      ]_vars

\* Both descriptors have been hashed.
Hashed == \A c \in Callers : pc[c] = "done" /\ op[c] = "hash"

\* C14: two descriptors with the same non-zero numeric id and the same asset
\* class other than CONTFUT have the same hash, whatever their other fields.
C14_SameIdSameHash ==
    /\ Hashed
    /\ contract[1].conId # 0 /\ contract[1].conId = contract[2].conId
    /\ contract[1].secType # "CONTFUT"
    /\ contract[1].secType = contract[2].secType
    => result[1] = result[2]

C14_Witness ==
    /\ Hashed
    /\ contract[1].conId = 2 /\ contract[2].conId = 2
    /\ contract[1].secType = "STK" /\ contract[2].secType = "STK"
    /\ contract[1].symbol # contract[2].symbol
    /\ contract[1].exchange # contract[2].exchange
    /\ result[1] = result[2]

\* C15: the hash of a CONTFUT descriptor with a non-zero numeric id is the
\* negation of the hash of the FUT descriptor equal to it in every other
\* field.
\* hash() never returns -1: the CONTFUT descriptor with numeric id 1 hashes to
\* -2 while its FUT twin hashes to 1, so the property fails.
C15_ContfutHashNegated ==
    /\ Hashed
    /\ contract[1].conId # 0
    /\ contract[1].secType = "CONTFUT"
    /\ contract[2] = [contract[1] EXCEPT !.secType = "FUT"]
    => /\ result[1][1][1] = "int" /\ result[2][1][1] = "int"
       /\ result[1][1][2] = 0 - result[2][1][2]

\* Caller c has decoded a string: the one it was given, or the one it encoded.
Decoded(c) == op[c] = "contract_for_sid" /\ pc[c] \in {"done", "error"}

\* C16: encoding one of the representative descriptors (equity, future,
\* currency pair, crypto) and decoding the result gives a descriptor with the
\* same asset class, symbol and exchange; the future {CBOT, ZC, local symbol
\* ZCH4} encodes to CBOT_ZC_2403; ARCA_URA decodes to {STK, URA, SMART,
\* primary ARCA, USD} and IDEALPRO_EUR.USD to {CASH, EUR, IDEALPRO, USD}.
C16_CodecRoundTrip ==
    \A c \in Callers :
        /\ contract[c] \in Representatives /\ pc[c] \in {"done", "error"}
            => /\ pc[c] = "done"
               /\ contract[c] = FUT_ZCH4 => result[c][1] = <<"C", "B", "O", "T", "_", "Z", "C", "_", "2", "4", "0", "3">>
               /\ Decoded(c)
                    => /\ result[c][2].secType = contract[c].secType
                       /\ result[c][2].symbol = contract[c].symbol
                       /\ result[c][2].exchange = contract[c].exchange
        /\ Decoded(c) /\ result[c][1] = <<"A", "R", "C", "A", "_", "U", "R", "A">>
            => /\ pc[c] = "done"
               /\ result[c][2] =
                    [Contract_chars EXCEPT
                        !.secType = "STK", !.symbol = <<"U", "R", "A">>,
                        !.exchange = <<"S", "M", "A", "R", "T">>,
                        !.primaryExchange = <<"A", "R", "C", "A">>, !.currency = USD]
        /\ Decoded(c) /\ result[c][1] = <<"I", "D", "E", "A", "L", "P", "R", "O", "_", "E", "U", "R", ".", "U", "S", "D">>
            => /\ pc[c] = "done"
               /\ result[c][2].secType = "CASH"
               /\ result[c][2].symbol = <<"E", "U", "R">>
               /\ result[c][2].exchange = <<"I", "D", "E", "A", "L", "P", "R", "O">>
               /\ result[c][2].currency = USD

\* The future has gone through encoding and decoding, and a given ARCA_URA
\* has been decoded.
C16_Witness ==
    /\ contract[1] = FUT_ZCH4 /\ Decoded(1) /\ pc[1] = "done"
    /\ result[1][1] = <<"C", "B", "O", "T", "_", "Z", "C", "_", "2", "4", "0", "3">>
    /\ result[1][2].symbol = <<"Z", "C">>
    /\ Decoded(2) /\ pc[2] = "done" /\ result[2][1] = <<"A", "R", "C", "A", "_", "U", "R", "A">>

\* C17: contract_for_sid fails only with the error that no descriptor can be
\* made from the string, and a descriptor it returns has a symbol.
\* An id with a currency marker or a '.' is unpacked into two parts before
\* anything is checked; with another number of parts the unpacking raises
\* ValueError, so the property fails.
C17_OnlyUnparseableError ==
    \A c \in Callers :
        Decoded(c)
        => /\ pc[c] = "error"
                => /\ Len(exc[c]) = 2
                   /\ exc[c][1] = "Can't make a contract from SID"
           /\ pc[c] = "done" => result[c][2].symbol # <<>>

\* The ids a callback can name.
AnyIds == {0 - 1, 0} \cup Ids

\* C18 as stated: Results.get for an id that is no key gives the empty
\* unfinished placeholder with id 0 and no type, and an error or data
\* callback for such an id leaves every Request and the dict as they were.
\* openOrder with an order id that is no key goes on to the last active
\* open_orders entry and appends to it, so the property fails.
C18_UnknownIdChangesNothing ==
    [][\A reqId \in AnyIds \ Keys :
        \/ historicalData(reqId)
        \/ historicalDataEnd(reqId)
        \/ openOrder(reqId)
        \/ \E code \in INFO_CODES \cup Codes : error(reqId, code, OtherMsg)
        => /\ Results_get(reqId) = 0
           /\ Placeholder = [Request("", 0) EXCEPT !.finished = FALSE, !.items = <<>>]
           /\ requests' = requests
           /\ requests_by_id' = requests_by_id
      ]_vars

\* C18: Results.get for an id that is no key gives the empty unfinished
\* placeholder with id 0 and no type; an error callback or a data callback
\* that looks its entry up by request id leaves, for such an id, every
\* Request and the dict as they were; openOrder for such an order id leaves
\* the dict as it was and changes no Request but the last active
\* open_orders entry.
C18_UnknownRequestIdChangesNothing ==
    [][\A reqId \in AnyIds \ Keys :
        /\ \/ historicalData(reqId)
           \/ historicalDataEnd(reqId)
           \/ \E code \in INFO_CODES \cup Codes : error(reqId, code, OtherMsg)
           => /\ Results_get(reqId) = 0
              /\ Placeholder = [Request("", 0) EXCEPT !.finished = FALSE, !.items = <<>>]
              /\ requests' = requests
              /\ requests_by_id' = requests_by_id
        /\ openOrder(reqId)
           => /\ requests_by_id' = requests_by_id
              /\ \A h \in DOMAIN requests :
                    requests'[h] # requests[h]
                    => /\ Results_active("open_orders") # <<>>
                       /\ h = Last(Results_active("open_orders"))
      ]_vars

\* A data callback has been delivered and the one registered entry, open,
\* has nothing: the callback carried an id that is no key.
C18_Witness ==
    /\ nitems = 1
    /\ Len(requests) = 1 /\ Registered(1)
    /\ requests[1] = Request("historical_data", requests[1].id)

\* C19: the entries Results.active gives for a type are in the order of
\* their creation, the newest last.
\* A request under an id that is a key already takes the place of that key
\* in the dict, ahead of entries created before it, so the property fails.
C19_ActiveNewestLast ==
    \A type \in RTypes :
        LET act == Results_active(type)
        IN \A i, j \in DOMAIN act : i < j => act[i] < act[j]

\* C20: an error callback with an informational code changes no Request and
\* not the dict, whatever id it carries: no step that changes either is a
\* step of such a callback.
C20_InfoCodeChangesNothing ==
    [][requests' # requests \/ requests_by_id' # requests_by_id
        => \A reqId \in AnyIds, code \in INFO_CODES :
                ~error(reqId, code, OtherMsg)
      ]_vars

\* An entry is registered and open, has taken an item, and carries no error:
\* informational errors under its id are among the steps out of this state.
C20_Witness ==
    \E h \in DOMAIN requests :
        /\ Registered(h)
        /\ requests[h].id \in CallbackIds(RTypes)
        /\ ~requests[h].finished /\ requests[h].code = 0
        /\ requests[h].items # <<>>

\* C21: every entry of the resolution cache holds at least one record, and
\* a resolution whose lookup gives more than one record fails as ambiguous
\* and leaves the descriptor unresolved.
C21_CacheEntriesNonEmpty ==
    /\ [](\A h \in DOMAIN cached_details : Len(cached_details[h]) >= 1)
    /\ [][\A c \in Callers :
            qualify_contract_return(c) /\ Len(requests[hs[c][1]].items) > 1
            => /\ pc'[c] = "qualify_error"
               /\ exc'[c][1] = "Ambiguous contract"
               /\ contract'[c].details = 0
               /\ result'[c] = <<>>
         ]_vars

\* A lookup gave two records, both went through contractDetails into the
\* cache, and the resolution has ended as ambiguous.
C21_Witness ==
    /\ cached_details # <<>>
    /\ pc[1] = "qualify_error" /\ op[1] = "qualify_contract"
    /\ exc[1][1] = "Ambiguous contract"
    /\ Len(requests[hs[1][1]].items) = 2

\* C22: a resolution by numeric id that is answered from the cache gives a
\* CONTFUT descriptor a CONTFUT record and any other descriptor a record
\* that is not CONTFUT.
\* _get_cached_details looks up Contract(conId=...), without the asset class,
\* so a CONTFUT descriptor finds the record cached for the concrete future
\* of the same id, and the property fails.
C22_ContfutNeverCollides ==
    [][\A c \in Callers, keep_exchange \in BOOLEAN, rid \in Ids :
        LET h == Contract_hash(LookupKey(contract[c]))
        IN /\ qualify_contract(c, keep_exchange, rid)
           /\ contract[c].details = 0 /\ contract[c].conId # 0
           /\ h \in DOMAIN cached_details
           => \A i \in DOMAIN cached_details[h] :
                (cds[cached_details[h][i]].secType = "CONTFUT")
                    <=> (contract[c].secType = "CONTFUT")
      ]_vars

\* C23: of the messages that are not contract-details or details-end
\* messages none is lost or duplicated while get_contract_details takes
\* messages from the queue, and the dispatcher handles them in the order in
\* which the gateway sent them.
\* The loop puts such a message back at the tail, behind the messages that
\* were sent after it, so the order part fails.
C23_UnrelatedOrderKept ==
    /\ \A n \in 1..OtherSent :
            Cardinality({i \in DOMAIN dispatched : dispatched[i] = n})
                + Cardinality({i \in InQueue("other") : msg_queue[i].n = n}) = 1
    /\ \A i, j \in DOMAIN dispatched : i < j => dispatched[i] < dispatched[j]

\* The details message and, behind it, the end message for the request of
\* caller c are in the queue, and its Timer has not expired.
AnswerQueued(c) ==
    /\ Pumps(c) /\ ~Expired(c) /\ ~requests[hs[c][1]].finished
    /\ \E i, j \in DOMAIN msg_queue :
        /\ i < j
        /\ msg_queue[i] = Msg("details", requests[hs[c][1]].id, 0)
        /\ msg_queue[j] = Msg("end", requests[hs[c][1]].id, 0)

RegisteredAfter(h) == Handle(requests_by_id', requests[h].id) = h

\* C24 as stated: a Request that Results.request takes out of the registry
\* is older than ten minutes and the dict held more than ten entries at the
\* call.
\* A request under an id that is a key already puts the new Request in the
\* place of the one registered there, young or old, so the property fails.
C24_RemovesOnlyOldWhenLarge ==
    [][\A id \in 1..MaxEntries :
        request("positions", id)
        => \A h \in DOMAIN requests :
            Registered(h) /\ ~RegisteredAfter(h)
            => Len(requests_by_id) > EVICT_SIZE /\ requests[h].old
      ]_vars

\* C24: a Request that Results.request takes out of the registry is older
\* than ten minutes, with more than ten entries in the dict at the call, or
\* it was registered under the id of the new request; keys other than that
\* id go only by the first rule.
C24_EvictsOnlyOldWhenLarge ==
    [][\A id \in 1..MaxEntries :
        request("positions", id)
        => \A h \in DOMAIN requests :
            Registered(h) /\ ~RegisteredAfter(h)
            => \/ Len(requests_by_id) > EVICT_SIZE /\ requests[h].old
               \/ requests[h].id = id
      ]_vars

\* An eviction has happened: an old Request is out of the registry and no
\* newer one has its id, while a Request younger than ten minutes that was
\* there at the call is still registered.
C24_Witness ==
    /\ \E h \in DOMAIN requests :
        requests[h].old /\ ~Registered(h) /\ requests[h].id \notin Keys
    /\ \E h \in DOMAIN requests :
        ~requests[h].old /\ Registered(h) /\ h < Len(requests)

\* C26: the symbolic id of a CASH descriptor is EXCHANGE_BASE.QUOTE of its
\* exchange, symbol and currency whatever its local symbol, and a CASH
\* descriptor that contract_for_sid returned encodes back to the id it was
\* decoded from.
\* sid_for_contract builds the id of a CASH descriptor from the exchange
\* and the local symbol alone, and contract_for_sid leaves the local symbol
\* empty, so both halves fail.
C26_CashSidFromFields ==
    \A c \in Callers :
        op[c] = "sid_for_contract" /\ pc[c] = "done"
        => /\ Len(result[c]) = 1 /\ contract[c].secType = "CASH"
                => LET con == contract[c]
                       exchange == IF con.primaryExchange # <<>>
                                   THEN con.primaryExchange ELSE con.exchange
                   IN result[c][1] = upper(exchange \o <<"_">> \o con.symbol
                                           \o <<".">> \o con.currency)
           /\ Len(result[c]) = 3 /\ result[c][2].secType = "CASH"
                => result[c][3] = upper(result[c][1])

\* C27: two descriptors that compare equal have the same hash, a CONTFUT
\* descriptor and a concrete contract with the same non-zero numeric id
\* included.
\* __eq__ answers True for equal non-zero numeric ids before any hash is
\* looked at, while __hash__ negates the id of a CONTFUT descriptor, so the
\* property fails for exactly the pair the claim names.
C27_EqualImpliesSameHash ==
    \A c \in Callers :
        /\ \A d \in Callers : pc[d] = "done"
        /\ op[c] = "eq" /\ result[c][2]
        => result[1][1] = result[2][1]

\* C28: qualify_contract leaves the exchange of every record of the
\* resolution cache as the gateway gave it, and a resolution that did not ask
\* to keep the descriptor's exchange returns the exchange of the gateway's
\* record for the instrument, whatever earlier resolutions asked for.
\* Under keep_exchange qualify_contract writes the descriptor's exchange into
\* the contract of the cached record itself (as it does the trimmed expiry),
\* so the next resolution answered from the cache receives that exchange.
C28_CachedExchangeKept ==
    [][/\ \A h \in DOMAIN cached_details :
            \A i \in DOMAIN cached_details[h] :
                cds'[cached_details[h][i]].exchange
                    = cds[cached_details[h][i]].exchange
       /\ /\ op'[1] = "qualify_contract" /\ pc'[1] = "done"
          /\ contract[1].details = 0 /\ contract'[1].details # 0
          /\ ~keep'[1]
          => \E con \in Canon :
                /\ con.conId = contract'[1].conId
                /\ con.exchange = contract'[1].exchange]_vars

\* C29: an entry of get_positions is finished only by the positionEnd that
\* ends the answer to its own request; a call made after an earlier call
\* timed out is not finished, and does not return, on the late positionEnd
\* of the earlier request.
\* positionEnd finishes every positions entry in the registry, so the late
\* end of the first answer finishes the second call's entry as well.
C29_FinishedByOwnEnd ==
    /\ \A h \in DOMAIN requests :
            requests[h].finished => \E i \in DOMAIN dispatched : dispatched[i] = h
    /\ \A c \in Callers :
            pc[c] = "done" => \E i \in DOMAIN dispatched : dispatched[i] = hs[c][1]

\* C30: get_orders returns every order that openOrder delivered between its
\* open_orders request and openOrderEnd, whatever the orderId of the
\* callback.
\* openOrder appends to the entry registered under its orderId when there is
\* one, so an order reported under the id of a place_order entry goes to
\* that entry and is missing from the list get_orders returns.
C30_OrdersComplete ==
    \A c \in Callers :
        pc[c] = "done" /\ op[c] = "get_orders"
        => LET due == ghost[hs[c][1]].due
           IN \A i \in DOMAIN due : \E j \in DOMAIN result[c] : result[c][j] = due[i]

\* C31: with the caller's loop and EClient.run both taking messages from
\* the queue, an entry is finished only when every details message the gateway
\* sent for its id has been appended, and get_contract_details returns as
\* many records as the gateway sent.
\* The thread that took a details message may be overtaken by the thread
\* that took the end message after it: the entry is finished first and
\* contractDetails then drops the record.
C31_NoRecordLost ==
    /\ \A h \in DOMAIN requests :
            requests[h].finished
            => /\ \A i \in InQueue("details") : msg_queue[i].id # requests[h].id
               /\ \A t \in InHand("details") : taken[t][1].id # requests[h].id
    /\ pc[1] = "done" /\ op[1] = "get_contract_details"
        => Len(result[1]) = nitems + Cardinality(InQueue("details"))
                                   + Cardinality(InHand("details"))

\* C32: two calls of get_next_order_id on one connection never return the
\* same order id.
\* Two threads released by one nextValidId may both increment the counter
\* before either reads it back, and both return the same id; and nextValidId
\* overwrites the counter with the value the gateway reports, which is the
\* same value as long as no order was placed, so a second call after the
\* first returns what the first returned.
C32_OrderIdsDistinct ==
    (\A c \in Callers : pc[c] = "done" /\ op[c] = "get_next_order_id")
        => result[1] # result[2]

====
